---- MODULE Spec2Model ----
(***************************************************************************)
(* Conversation lifecycle and credit accounting of eurecode:               *)
(*   - quiz answer submission and the artifact's unlock level              *)
(*     (app/api/artifacts/[id]/quizzes/[quizId]/route.ts, PATCH);          *)
(*   - credit balance resolution with per-member allocation                *)
(*     (the credit balance GET handler, both of its variants);             *)
(*   - daily token usage debits (lib/token-limit.ts, updateTokenUsage);    *)
(*   - quiz generation, deletion and artifact progress                     *)
(*     (app/api/artifacts/[id]/quizzes/route.ts, the progress route);      *)
(*   - history compaction and the redistribution of correct answers        *)
(*     (lib/conversation-compactor.ts);                                    *)
(*   - rate limiting, in memory and on Redis (lib/rate-limit.ts);          *)
(*   - role updates (app/api/admin/members/[id]/role/route.ts, PUT);       *)
(*   - password reset (app/api/auth/reset-password/route.ts, POST).        *)
(* Handlers are modelled as one atomic action (requests served one after   *)
(* another) and, where requests race, split at their awaits.               *)
(***************************************************************************)
EXTENDS Integers, Sequences, FiniteSets, TLC

VARIABLES
  quizzes,      \* Quiz rows of one artifact: quiz id -> row
  unlockLevel,  \* Artifact.unlockLevel of that artifact
  clock,        \* the value new Date() returns to the quiz handler
  quizResp,     \* response of the last answer request served atomically
  req,          \* answer requests in flight: request -> locals and position
  allocations,  \* CreditAllocation rows, in insertion order
  accessKey,    \* AccessKey row of each user
  creditBalance,\* CreditBalance row of each owner (a user or the organization)
  subscription, \* Subscription.individualPlan of each user
  uniqueKey,    \* whether the storage layer holds a unique index on
                \* (organizationId, userId, periodStart, periodEnd)
  now,          \* the value new Date() returns to the balance handler
  balanceResp,  \* response of the last balance request served atomically
  get,          \* balance requests in flight: request -> locals and position
  usage,        \* the TokenUsage row of (userId, today)
  usageAtStart, \* that row before the first call (never written)
  calls,        \* updateTokenUsage calls in flight: call -> locals and position
  artifact,     \* one Artifact row: content (idioms in it), totalQuestions, unlockLevel
  artQuizzes,   \* the Quiz rows of that artifact, ordered by level
  artResp,      \* response of the last request on that artifact
  messages,     \* the messages of one conversation, oldest first
  compactSummary, \* metadata.compactSummary of that conversation
  compacted,    \* outcome of the last compactConversationIfNeeded call
  relabelled,   \* input and outcome of one distributeCorrectAnswers call
  posts,        \* generate and delete requests in flight on the artifact
  quizLevelUnique, \* whether the storage layer holds a unique index on
                \* (artifactId, level) of Quiz
  rlNow,        \* the value Date.now() returns to the rate limiter
  memoryStore,  \* memoryStore: identifier -> { count, resetAt }
  sortedSet,    \* the Redis sorted set of each key: entries { score, member }
  rlCalls,      \* checkRateLimit calls in flight: call -> locals and position
  admitted,     \* the requests answered success: true, in order
  rlResult,     \* result of the last in-memory check
  orgUsers,     \* User rows: id -> userType, organizationId
  puts,         \* role update requests: request -> locals, position, response
  resetNow,     \* the value new Date() returns to the reset handler
  verificationToken, \* the VerificationToken row issued for the address
  resetUser,    \* the User row of the address
  resets,       \* reset requests: request -> locals, position, response
  passwordUpdates \* number of passwordHash updates made with each token

quizVars == <<quizzes, unlockLevel, clock, quizResp, req>>

allocVars == <<allocations, accessKey, creditBalance, subscription, uniqueKey,
               now, balanceResp, get>>

usageVars == <<usage, usageAtStart, calls>>

artVars == <<artifact, artQuizzes, artResp>>

compactVars == <<messages, compactSummary, compacted>>

relabelVars == <<relabelled>>

genVars == <<posts, quizLevelUnique>>

rateVars == <<rlNow, memoryStore, sortedSet, rlCalls, admitted, rlResult>>

roleVars == <<orgUsers, puts>>

resetVars == <<resetNow, verificationToken, resetUser, resets, passwordUpdates>>

vars == <<quizVars, allocVars, usageVars, artVars, compactVars, relabelVars,
          genVars, rateVars, roleVars, resetVars>>

----------------------------------------------------------------------------
(* Bounds *)

NumQuizzes == 3
NumReqs == 2
NumGets == 2
TicksPerMonth == 3
NumMonths == 2
MaxRows == 3
NumCalls == 2
MaxProgress == 2
MaxMessages == 18
MaxRepeats == 1

\* Redis-backed checks in flight.
NumChecks == 3

\* config.limit of the limiter under test.
Limit == 2

\* config.windowSec * 1000, in clock ticks.
WindowMs == 2

\* Last value of Date.now() in the rate limiter.
MaxNow == 3

\* Role update requests in flight.
NumPuts == 2

\* Reset requests in flight.
NumResets == 2

\* Last value of new Date() in the reset handler.
MaxResetNow == 2

\* VerificationToken.expires of the issued token.
TokenExpires == 1

\* Generate and delete requests on the artifact.
NumPosts == 2

QuizIds == 1..NumQuizzes
Reqs == 1..NumReqs
Gets == 1..NumGets
Calls == 1..NumCalls

----------------------------------------------------------------------------
(* Quiz answer submission: PATCH /api/artifacts/[id]/quizzes/[quizId] *)

\* Request bodies tried: upper case, lower case, outside A-F, too long.
RawAnswers == {"A", "b", "G", "AB"}

\* String.prototype.toUpperCase on the strings the model uses.
ToUpperCase(s) ==
  CASE s = "a" -> "A" [] s = "b" -> "B" [] s = "c" -> "C"
    [] s = "d" -> "D" [] s = "e" -> "E" [] s = "f" -> "F"
    [] s = "g" -> "G" [] s = "ab" -> "AB"
    [] OTHER -> s

\* /^[A-F]$/i
MatchesLabel(s) ==
  s \in {"A", "B", "C", "D", "E", "F", "a", "b", "c", "d", "e", "f"}

\* answerQuizSchema.safeParse(body)
answerQuizSchema(raw) ==
  IF MatchesLabel(raw)
    THEN [success |-> TRUE, answer |-> ToUpperCase(raw)]
    ELSE [success |-> FALSE, answer |-> ""]

\* A Quiz row as POST /quizzes creates it (status pending, nothing answered).
PendingQuiz(label) ==
  [status |-> "pending", correctLabel |-> label, userAnswer |-> "",
   isCorrect |-> FALSE, answeredAt |-> -1]

\* The labels distributeCorrectAnswers hands out: A, B, C round-robin from an offset.
Labels == <<"A", "B", "C">>
RoundRobinLabel(offset, i) == Labels[((offset + i - 1) % 3) + 1]

\* const isCorrect = answer.toUpperCase() === quiz.correctLabel.toUpperCase()
CheckAnswer(answer, row) == ToUpperCase(answer) = ToUpperCase(row.correctLabel)

\* Mutant: the ALREADY_ANSWERED guard is missing.
AlreadyAnswered_NoGuard(row) == FALSE

\* The guard "if (quiz.status === 'answered') return ALREADY_ANSWERED".
AlreadyAnswered(row) == row.status = "answered"

\* prisma.quiz.update({ where: { id }, data: { status, userAnswer, isCorrect, answeredAt } })
QuizUpdate(qs, q, answer, isCorrect, at) ==
  [qs EXCEPT ![q] = [@ EXCEPT !.status = "answered",
                              !.userAnswer = ToUpperCase(answer),
                              !.isCorrect = isCorrect,
                              !.answeredAt = at]]

\* Mutant: the filter forgets isCorrect and counts every answered quiz.
AnsweredCorrectly_AnyAnswer(qs) ==
  Cardinality({q \in DOMAIN qs : qs[q].status = "answered"})

\* allQuizzes.filter((q) => q.status === "answered" && q.isCorrect).length
AnsweredCorrectly(qs) ==
  Cardinality({q \in DOMAIN qs : qs[q].status = "answered" /\ qs[q].isCorrect})

\* const isUnlocked = answeredCorrectly >= totalQuestions
IsUnlockedAfterAnswer(count, total) == count >= total

NoResp == [code |-> "NONE", quizId |-> 0, isCorrect |-> FALSE,
           currentLevel |-> 0, totalQuestions |-> 0, isUnlocked |-> FALSE]

ErrorResp(code, q) == [NoResp EXCEPT !.code = code, !.quizId = q]

OkResp(q, isCorrect, count, total) ==
  [code |-> "OK", quizId |-> q, isCorrect |-> isCorrect,
   currentLevel |-> count, totalQuestions |-> total,
   isUnlocked |-> IsUnlockedAfterAnswer(count, total)]

IdleReq == [pc |-> "idle", quizId |-> 0, answer |-> "", isCorrect |-> FALSE,
            counted |-> 0, total |-> 0, code |-> "NONE"]

\* The artifact right after quiz generation: every quiz pending, unlockLevel 0.
InitQuizzes ==
  /\ \E offset \in 0..2 :
       quizzes = [q \in QuizIds |-> PendingQuiz(RoundRobinLabel(offset, q))]
  /\ unlockLevel = 0
  /\ clock = 0
  /\ quizResp = NoResp
  /\ req = [r \in Reqs |-> IdleReq]

\* The whole PATCH handler, served without any other request in between.
\* q ranges over the artifact's quizzes and one id that is no quiz of it.
PatchAnswer(q, raw) ==
  LET parsed == answerQuizSchema(raw) IN
  /\ UNCHANGED req
  /\ IF ~parsed.success
       THEN /\ quizResp' = ErrorResp("VALIDATION_ERROR", q)
            /\ UNCHANGED <<quizzes, unlockLevel, clock>>
     ELSE IF q \notin DOMAIN quizzes
       THEN /\ quizResp' = ErrorResp("NOT_FOUND", q)
            /\ UNCHANGED <<quizzes, unlockLevel, clock>>
     ELSE IF AlreadyAnswered(quizzes[q])
       THEN /\ quizResp' = ErrorResp("ALREADY_ANSWERED", q)
            /\ UNCHANGED <<quizzes, unlockLevel, clock>>
     ELSE LET isCorrect == CheckAnswer(parsed.answer, quizzes[q])
              updated == QuizUpdate(quizzes, q, parsed.answer, isCorrect, clock)
              count == AnsweredCorrectly(updated)
          IN /\ quizzes' = updated
             /\ unlockLevel' = count
             /\ clock' = clock + 1
             /\ quizResp' = OkResp(q, isCorrect, count, Cardinality(DOMAIN updated))

----------------------------------------------------------------------------
(* The same handler split at its awaits: the quiz read (findFirst), the quiz
   write (update), the sibling read (findMany) and the artifact write (update).
   Each request slot serves one request. *)

\* body parse, prisma.quiz.findFirst, the ALREADY_ANSWERED guard, isCorrect
PatchStart(r, q, raw) ==
  LET parsed == answerQuizSchema(raw) IN
  /\ req[r].pc = "idle"
  /\ req' = [req EXCEPT ![r] =
       IF ~parsed.success
         THEN [IdleReq EXCEPT !.pc = "done", !.quizId = q, !.code = "VALIDATION_ERROR"]
       ELSE IF q \notin DOMAIN quizzes
         THEN [IdleReq EXCEPT !.pc = "done", !.quizId = q, !.code = "NOT_FOUND"]
       ELSE IF AlreadyAnswered(quizzes[q])
         THEN [IdleReq EXCEPT !.pc = "done", !.quizId = q, !.code = "ALREADY_ANSWERED"]
       ELSE [IdleReq EXCEPT !.pc = "update", !.quizId = q, !.answer = parsed.answer,
                            !.isCorrect = CheckAnswer(parsed.answer, quizzes[q])]]
  /\ UNCHANGED <<quizzes, unlockLevel, clock, quizResp>>

\* await prisma.quiz.update(...)
PatchUpdateQuiz(r) ==
  /\ req[r].pc = "update"
  /\ quizzes' = QuizUpdate(quizzes, req[r].quizId, req[r].answer, req[r].isCorrect, clock)
  /\ clock' = clock + 1
  /\ req' = [req EXCEPT ![r].pc = "findMany"]
  /\ UNCHANGED <<unlockLevel, quizResp>>

\* await prisma.quiz.findMany({ where: { artifactId } }) and the count over it
PatchFindMany(r) ==
  /\ req[r].pc = "findMany"
  /\ req' = [req EXCEPT ![r].pc = "updateArtifact",
                        ![r].counted = AnsweredCorrectly(quizzes),
                        ![r].total = Cardinality(DOMAIN quizzes)]
  /\ UNCHANGED <<quizzes, unlockLevel, clock, quizResp>>

\* await prisma.artifact.update({ data: { unlockLevel: answeredCorrectly } }), the response
PatchUpdateArtifact(r) ==
  /\ req[r].pc = "updateArtifact"
  /\ unlockLevel' = req[r].counted
  /\ req' = [req EXCEPT ![r].pc = "done", ![r].code = "OK"]
  /\ UNCHANGED <<quizzes, clock, quizResp>>

----------------------------------------------------------------------------
(* Credit balance resolution: the credit balance GET handler, in its
   allocation-first variant and in its member-only variant. One organization,
   three accounts. *)

Users == {"member", "admin", "individual"}

\* session.user.userType
UserType(u) == u

\* user.organizationId ("" when the user belongs to no organization)
OrganizationId(u) == IF u \in {"member", "admin"} THEN "org1" ELSE ""

\* Mutant: administrators take the member path too.
UsesAllocationSystem_Admins(u) == UserType(u) \in {"member", "admin"}

\* const usesAllocationSystem = userType === "member"
UsesAllocationSystem(u) == UserType(u) = "member"

\* ORGANIZATION_PLANS / INDIVIDUAL_PLANS [plan].features.monthlyConversationPoints
MonthlyConversationPoints(plan) ==
  CASE plan = "free" -> 30
    [] plan = "pro" -> 300
    [] plan = "business" -> 1000
    [] OTHER -> 0

\* MODEL_CONSUMPTION_RATE
Models == {"sonnet", "opus"}
MODEL_CONSUMPTION_RATE == [sonnet |-> 1, opus |-> 2]

\* user.organization.plan
OrganizationPlan == "business"

\* new Date(now.getFullYear(), now.getMonth(), 1): the first instant of now's month
MonthStart(t) == t - (t % TicksPerMonth)

\* new Date(now.getFullYear(), now.getMonth() + 1, 0, 23, 59, 59): the last second
\* of now's month at millisecond 0. The last tick of every month stands for
\* the milliseconds 1..999 of that second, which are later than this value.
MonthEnd(t) == MonthStart(t) + TicksPerMonth - 2

NoAccessKey == [exists |-> FALSE, hasLimit |-> FALSE, dailyTokenLimit |-> 0, keyCode |-> ""]

AccessKeyWith(hasLimit, limit) ==
  [exists |-> TRUE, hasLimit |-> hasLimit, dailyTokenLimit |-> limit, keyCode |-> "K1"]

\* Mutant: tests the access key, not its limit.
DeclaresLimit_AnyKey(k) == k.exists

\* accessKey?.dailyTokenLimit as a condition: a key, a limit, and the limit not 0
DeclaresLimit(k) == k.exists /\ k.hasLimit /\ k.dailyTokenLimit # 0

NoCreditBalance == [exists |-> FALSE, monthlyUsed |-> 0, balance |-> 0, purchasedUsed |-> 0]

CreditBalanceOf(monthlyUsed, balance, purchasedUsed) ==
  [exists |-> TRUE, monthlyUsed |-> monthlyUsed, balance |-> balance,
   purchasedUsed |-> purchasedUsed]

AllocationRow(org, u, allocated, used, t) ==
  [organizationId |-> org, userId |-> u, allocatedPoints |-> allocated,
   usedPoints |-> used, periodStart |-> MonthStart(t), periodEnd |-> MonthEnd(t)]

\* Mutant: Math.max(0, x) dropped.
Max0_NoClamp(x) == x

\* Math.max(0, x)
Max0(x) == IF x > 0 THEN x ELSE 0

\* The plan block: plan, isOrganization, monthlyPoints.
ResolvePlan(u, sub) ==
  IF UserType(u) \in {"member", "admin"} /\ OrganizationId(u) # ""
    THEN [plan |-> OrganizationPlan, isOrganization |-> TRUE,
          monthlyPoints |-> MonthlyConversationPoints(OrganizationPlan)]
  ELSE IF sub # ""
    THEN [plan |-> sub, isOrganization |-> FALSE,
          monthlyPoints |-> MonthlyConversationPoints(sub)]
  ELSE [plan |-> "free", isOrganization |-> FALSE,
        monthlyPoints |-> MonthlyConversationPoints("free")]

\* prisma.creditAllocation.findFirst({ where: { organizationId, userId,
\*   periodStart: { lte: now }, periodEnd: { gte: now } } }): index of the row, 0 if none
MatchingAllocations(rows, org, u, t) ==
  {i \in DOMAIN rows : /\ rows[i].organizationId = org
                       /\ rows[i].userId = u
                       /\ rows[i].periodStart <= t
                       /\ rows[i].periodEnd >= t}

FindAllocation(rows, org, u, t) ==
  LET found == MatchingAllocations(rows, org, u, t) IN
  IF found = {} THEN 0 ELSE CHOOSE i \in found : \A j \in found : i <= j

\* The unique index rejects a second row with the same key.
KeyTaken(rows, row) ==
  \E i \in DOMAIN rows : /\ rows[i].organizationId = row.organizationId
                         /\ rows[i].userId = row.userId
                         /\ rows[i].periodStart = row.periodStart
                         /\ rows[i].periodEnd = row.periodEnd

\* The locals the allocation block leaves behind.
Resolved(defined, points, used, pool, failed) ==
  [allocatedDefined |-> defined, allocatedPoints |-> points, allocatedUsed |-> used,
   adminUsesOrgPool |-> pool, failed |-> failed]

Unresolved == Resolved(FALSE, 0, 0, FALSE, FALSE)

\* prisma.creditAllocation.create: what the request sees, and the rows after it.
CreateAllocation(rows, unique, u, key, t) ==
  LET row == AllocationRow(OrganizationId(u), u, key.dailyTokenLimit, 0, t) IN
  IF unique /\ KeyTaken(rows, row)
    THEN [rows |-> rows, res |-> Resolved(FALSE, 0, 0, FALSE, TRUE)]
    ELSE [rows |-> Append(rows, row), res |-> Resolved(TRUE, row.allocatedPoints, 0, FALSE, FALSE)]

\* The allocation block as a whole (lines 471-517).
ResolveAllocation(rows, unique, u, key, t) ==
  IF ~(UserType(u) \in {"member", "admin"} /\ OrganizationId(u) # "")
    THEN [rows |-> rows, res |-> Unresolved]
  ELSE LET i == FindAllocation(rows, OrganizationId(u), u, t) IN
    IF i # 0
      THEN [rows |-> rows,
            res |-> Resolved(TRUE, rows[i].allocatedPoints, rows[i].usedPoints, FALSE, FALSE)]
    ELSE IF UsesAllocationSystem(u)
      THEN IF DeclaresLimit(key)
             THEN CreateAllocation(rows, unique, u, key, t)
             ELSE [rows |-> rows, res |-> Resolved(TRUE, 0, 0, FALSE, FALSE)]
    ELSE [rows |-> rows, res |-> Resolved(FALSE, 0, 0, TRUE, FALSE)]

\* Which CreditBalance the request uses (lines 519-527).
SelectCreditBalance(u, res, balances) ==
  IF res.adminUsesOrgPool /\ balances["org1"].exists
    THEN balances["org1"]
  ELSE IF ~UsesAllocationSystem(u) /\ UserType(u) # "admin"
    THEN balances[u]
  ELSE NoCreditBalance

\* The allocation block of the member-only variant (lines 222-261): only a
\* member's allocation is looked up; an administrator's is never read.
ResolveAllocationMemberOnly(rows, unique, u, key, t) ==
  IF ~(UsesAllocationSystem(u) /\ OrganizationId(u) # "")
    THEN [rows |-> rows, res |-> Unresolved]
  ELSE LET i == FindAllocation(rows, OrganizationId(u), u, t) IN
    IF i # 0
      THEN [rows |-> rows,
            res |-> Resolved(TRUE, rows[i].allocatedPoints, rows[i].usedPoints, FALSE, FALSE)]
    ELSE IF DeclaresLimit(key)
      THEN CreateAllocation(rows, unique, u, key, t)
    ELSE [rows |-> rows, res |-> Resolved(TRUE, 0, 0, FALSE, FALSE)]

\* Which CreditBalance the member-only variant uses (lines 209-213).
SelectCreditBalanceMemberOnly(u, balances) ==
  IF UsesAllocationSystem(u) THEN NoCreditBalance
  ELSE IF UserType(u) = "admin" /\ balances["org1"].exists THEN balances["org1"]
  ELSE balances[u]

PlanPointsRemaining(cb, monthlyPoints) ==
  IF cb.exists THEN Max0(monthlyPoints - cb.monthlyUsed) ELSE monthlyPoints

PurchasedPointsRemaining(cb) ==
  IF cb.exists THEN Max0(cb.balance - cb.purchasedUsed) ELSE 0

\* allocatedPointsRemaining, meaningful only when the allocation is defined
AllocatedPointsRemaining(res) ==
  IF res.allocatedDefined THEN Max0(res.allocatedPoints - res.allocatedUsed) ELSE 0

\* checkCanStartConversation(context) of lib/plan-restrictions
checkCanStartConversation(ctx) ==
  LET total == IF ctx.allocatedDefined
                 THEN ctx.allocatedPointsRemaining
                 ELSE ctx.planPointsRemaining + ctx.purchasedPointsRemaining
  IN [totalPointsRemaining |-> total,
      allowed |-> total > 0,
      availableModels |-> {m \in Models : MODEL_CONSUMPTION_RATE[m] <= total}]

\* Mutant: the allocation is added to the plan and purchased pools.
UsablePoints_Pooled(ctx) ==
  ctx.planPointsRemaining + ctx.purchasedPointsRemaining + ctx.allocatedPointsRemaining

\* allocatedPointsRemaining ?? planPointsRemaining + purchasedPointsRemaining
UsablePoints(ctx) ==
  IF ctx.allocatedDefined
    THEN ctx.allocatedPointsRemaining
    ELSE ctx.planPointsRemaining + ctx.purchasedPointsRemaining

\* Math.floor(usable / MODEL_CONSUMPTION_RATE[m]) for each model
ModelRemainingConversations(ctx) ==
  [m \in Models |-> UsablePoints(ctx) \div MODEL_CONSUMPTION_RATE[m]]

NoBalanceResp ==
  [status |-> 0, user |-> "", plan |-> "", isOrganization |-> FALSE,
   monthlyTotal |-> 0, monthlyUsed |-> 0, monthlyRemaining |-> 0,
   purchasedBalance |-> 0, purchasedUsed |-> 0, purchasedRemaining |-> 0,
   allocatedDefined |-> FALSE, allocatedTotal |-> 0, allocatedUsed |-> 0,
   allocatedRemaining |-> 0, totalRemaining |-> 0,
   remainingConversations |-> [m \in Models |-> 0],
   availableModels |-> {}, canStartConversation |-> FALSE, periodStart |-> 0]

\* The catch block: { error: "Failed to get credit balance" }, status 500
FailedBalanceResp(u) == [NoBalanceResp EXCEPT !.status = 500, !.user = u]

\* Everything after the allocation block: balance, remaining points, context,
\* admission check, per-model conversations, the JSON response.
BalanceResponseWith(u, res, cb, sub, t) ==
  IF res.failed THEN FailedBalanceResp(u)
  ELSE
    LET p == ResolvePlan(u, sub)
        ctx == [plan |-> p.plan, isOrganization |-> p.isOrganization,
                planPointsRemaining |-> PlanPointsRemaining(cb, p.monthlyPoints),
                purchasedPointsRemaining |-> PurchasedPointsRemaining(cb),
                allocatedDefined |-> res.allocatedDefined,
                allocatedPointsRemaining |-> AllocatedPointsRemaining(res),
                canPurchaseCredits |-> ~UsesAllocationSystem(u)]
        check == checkCanStartConversation(ctx)
    IN [status |-> 200, user |-> u, plan |-> p.plan, isOrganization |-> p.isOrganization,
        monthlyTotal |-> p.monthlyPoints, monthlyUsed |-> cb.monthlyUsed,
        monthlyRemaining |-> ctx.planPointsRemaining,
        purchasedBalance |-> cb.balance, purchasedUsed |-> cb.purchasedUsed,
        purchasedRemaining |-> ctx.purchasedPointsRemaining,
        allocatedDefined |-> res.allocatedDefined,
        allocatedTotal |-> res.allocatedPoints, allocatedUsed |-> res.allocatedUsed,
        allocatedRemaining |-> ctx.allocatedPointsRemaining,
        totalRemaining |-> check.totalPointsRemaining,
        remainingConversations |-> ModelRemainingConversations(ctx),
        availableModels |-> check.availableModels,
        canStartConversation |-> check.allowed,
        periodStart |-> MonthStart(t)]

BalanceResponse(u, res, balances, sub, t) ==
  BalanceResponseWith(u, res, SelectCreditBalance(u, res, balances), sub, t)

IdleGet == [pc |-> "idle", user |-> "", now |-> 0, resp |-> NoBalanceResp]

\* Rows an organization admin has granted before: none, or one for this month.
InitialAllocations ==
  {<<>>,
   <<AllocationRow("org1", "member", 100, 100, 0)>>,
   <<AllocationRow("org1", "member", 100, 150, 0)>>,
   <<AllocationRow("org1", "admin", 50, 10, 0)>>}

InitialAccessKeys ==
  {NoAccessKey, AccessKeyWith(FALSE, 0), AccessKeyWith(TRUE, 0), AccessKeyWith(TRUE, 100)}

\* The CreditBalance rows: one per user that has one, one per organization.
BalanceOwners == {"individual", "admin", "org1"}

\* The administrator's personal CreditBalance row.
AdminOwnCreditBalance == CreditBalanceOf(7, 3, 1)

InitialCreditBalances ==
  {NoCreditBalance, CreditBalanceOf(10, 20, 5), CreditBalanceOf(2000, 20, 50)}

InitAllocWith(balances, plans) ==
  /\ allocations \in InitialAllocations
  /\ \E k \in InitialAccessKeys :
       accessKey = [u \in Users |-> IF u = "individual" THEN NoAccessKey ELSE k]
  /\ \E b \in balances :
       creditBalance = [o \in BalanceOwners |->
                          IF o = "admin" THEN AdminOwnCreditBalance ELSE b]
  /\ \E plan \in plans :
       subscription = [u \in Users |-> IF u = "individual" THEN plan ELSE ""]
  /\ uniqueKey \in BOOLEAN
  /\ now = 0
  /\ balanceResp = NoBalanceResp
  /\ get = [g \in Gets |-> IdleGet]

\* The whole GET handler, served without any other request in between.
GetBalance(u) ==
  LET r == ResolveAllocation(allocations, uniqueKey, u, accessKey[u], now) IN
  /\ Len(r.rows) <= MaxRows
  /\ allocations' = r.rows
  /\ balanceResp' = BalanceResponse(u, r.res, creditBalance, subscription[u], now)
  /\ UNCHANGED <<accessKey, creditBalance, subscription, uniqueKey, now, get>>

\* The whole GET handler of the member-only variant.
GetBalanceMemberOnly(u) ==
  LET r == ResolveAllocationMemberOnly(allocations, uniqueKey, u, accessKey[u], now) IN
  /\ Len(r.rows) <= MaxRows
  /\ allocations' = r.rows
  /\ balanceResp' = BalanceResponseWith(u, r.res,
                       SelectCreditBalanceMemberOnly(u, creditBalance),
                       subscription[u], now)
  /\ UNCHANGED <<accessKey, creditBalance, subscription, uniqueKey, now, get>>

\* Time passes.
Tick ==
  /\ now < NumMonths * TicksPerMonth - 1
  /\ now' = now + 1
  /\ UNCHANGED <<allocations, accessKey, creditBalance, subscription, uniqueKey,
                 balanceResp, get>>

(* The same handler split at its awaits: the user read, the allocation read
   (findFirst), the access key read (findFirst) and the allocation insert
   (create). Each request slot serves one request. *)

\* Where the request goes after the allocation read found nothing.
Finish(g, res) ==
  [get[g] EXCEPT !.pc = "done",
                 !.resp = BalanceResponse(get[g].user, res, creditBalance,
                                          subscription[get[g].user], get[g].now)]

\* await prisma.user.findUnique(...), the plan block, const now = new Date()
GetStart(g, u) ==
  /\ get[g].pc = "idle"
  /\ get' = [get EXCEPT ![g] =
       IF UserType(u) \in {"member", "admin"} /\ OrganizationId(u) # ""
         THEN [IdleGet EXCEPT !.pc = "findAllocation", !.user = u, !.now = now]
         ELSE [[IdleGet EXCEPT !.user = u, !.now = now] EXCEPT
                 !.pc = "done",
                 !.resp = BalanceResponse(u, Unresolved, creditBalance, subscription[u], now)]]
  /\ UNCHANGED <<allocations, accessKey, creditBalance, subscription, uniqueKey,
                 now, balanceResp>>

\* await prisma.creditAllocation.findFirst(...)
GetFindAllocation(g) ==
  /\ get[g].pc = "findAllocation"
  /\ LET u == get[g].user
         i == FindAllocation(allocations, OrganizationId(u), u, get[g].now)
     IN get' = [get EXCEPT ![g] =
          IF i # 0
            THEN Finish(g, Resolved(TRUE, allocations[i].allocatedPoints,
                                    allocations[i].usedPoints, FALSE, FALSE))
          ELSE IF UsesAllocationSystem(u)
            THEN [get[g] EXCEPT !.pc = "findAccessKey"]
          ELSE Finish(g, Resolved(FALSE, 0, 0, TRUE, FALSE))]
  /\ UNCHANGED <<allocations, accessKey, creditBalance, subscription, uniqueKey,
                 now, balanceResp>>

\* await prisma.accessKey.findFirst({ where: { userId } })
GetFindAccessKey(g) ==
  /\ get[g].pc = "findAccessKey"
  /\ get' = [get EXCEPT ![g] =
       IF DeclaresLimit(accessKey[get[g].user])
         THEN [get[g] EXCEPT !.pc = "create"]
         ELSE Finish(g, Resolved(TRUE, 0, 0, FALSE, FALSE))]
  /\ UNCHANGED <<allocations, accessKey, creditBalance, subscription, uniqueKey,
                 now, balanceResp>>

\* await prisma.creditAllocation.create(...)
GetCreate(g) ==
  /\ get[g].pc = "create"
  /\ LET u == get[g].user
         c == CreateAllocation(allocations, uniqueKey, u, accessKey[u], get[g].now)
     IN /\ Len(c.rows) <= MaxRows
        /\ allocations' = c.rows
        /\ get' = [get EXCEPT ![g] = Finish(g, c.res)]
  /\ UNCHANGED <<accessKey, creditBalance, subscription, uniqueKey, now, balanceResp>>

\* Time passes within the month.
TickMonth ==
  /\ now < TicksPerMonth - 1
  /\ now' = now + 1
  /\ UNCHANGED <<allocations, accessKey, creditBalance, subscription, uniqueKey,
                 balanceResp, get>>

----------------------------------------------------------------------------
(* Quiz generation and artifact progress: GET, POST and DELETE of
   /api/artifacts/[id]/quizzes, PATCH of the quiz answer route on the rows so
   generated, PATCH of the progress route, and the generators
   generateQuizzesForArtifact and generateFallbackQuizzes. Requests are served
   one after another. *)

\* The idioms generateFallbackQuizzes looks for, in the order it tests them.
Idioms == <<"async", "useEffect", "tryCatch", "useState">>

\* Artifact contents, by the idioms their code matches.
Contents == {{}, {"useState"}, {"async", "tryCatch"}, {"async", "useEffect", "tryCatch", "useState"}}

\* One element of the JSON array the provider returns.
RawQuiz(question, options, hasCorrect) ==
  [level |-> 0, question |-> question, options |-> options, correctLabel |-> "B",
   hasCorrect |-> hasCorrect, malformed |-> FALSE]

\* What client.messages.create and the parsing after it can come to.
AiResponse(outcome, qs) == [outcome |-> outcome, quizzes |-> qs]

AiResponses ==
  {AiResponse("tooSimple", <<>>),
   AiResponse("providerError", <<>>),
   AiResponse("noText", <<>>),
   AiResponse("noJson", <<>>),
   AiResponse("parseError", <<>>),
   AiResponse("json", <<>>),
   AiResponse("json", <<[RawQuiz("q1", 3, TRUE) EXCEPT !.malformed = TRUE]>>),
   AiResponse("json", <<RawQuiz("q1", 2, TRUE), RawQuiz("q2", 3, FALSE)>>),
   AiResponse("json", <<RawQuiz("q1", 2, TRUE), RawQuiz("q1", 3, TRUE)>>),
   AiResponse("json", <<RawQuiz("q1", 3, TRUE), RawQuiz("q1", 3, TRUE)>>),
   AiResponse("json", <<RawQuiz("q1", 3, TRUE), RawQuiz("q2", 2, TRUE), RawQuiz("q3", 3, TRUE)>>)}

RECURSIVE ValidateFrom(_, _, _)
\* The loop of validateQuizzes from element i on, with the question keys seen.
ValidateFrom(qs, i, seen) ==
  IF i > Len(qs) THEN <<>>
  ELSE LET quiz == qs[i] IN
    IF quiz.question \in seen THEN ValidateFrom(qs, i + 1, seen)
    ELSE IF quiz.options < 3 \/ ~quiz.hasCorrect
      THEN ValidateFrom(qs, i + 1, seen \cup {quiz.question})
    ELSE <<quiz>> \o ValidateFrom(qs, i + 1, seen \cup {quiz.question})

validateQuizzes(qs) == ValidateFrom(qs, 1, {})

\* validated.map((quiz, idx) => ({ ...quiz, level: idx + 1 }))
Numbered(qs) == [i \in 1..Len(qs) |-> [qs[i] EXCEPT !.level = i]]

\* distributeCorrectAnswers with Math.floor(Math.random() * 3) = offset: the
\* i-th quiz gets the round-robin target as its correct label.
distributeCorrectAnswers(qs, offset) ==
  [i \in 1..Len(qs) |->
     IF qs[i].hasCorrect
       THEN [qs[i] EXCEPT !.correctLabel = RoundRobinLabel(offset, i)]
       ELSE qs[i]]

\* Mutant: a failure of the provider call is thrown to the caller.
AiFailureIsCaught_Thrown(ai) == ai.outcome # "providerError"

\* try { ... } catch (error) { return [] } around the provider call and all
\* processing of its response
AiFailureIsCaught(ai) == TRUE

\* generateQuizzesForArtifact: the quizzes returned, and whether it threw.
generateQuizzesForArtifact(ai, offset) ==
  IF ai.outcome = "json" /\ \A i \in DOMAIN ai.quizzes : ~ai.quizzes[i].malformed
    THEN [threw |-> FALSE,
          quizzes |-> distributeCorrectAnswers(Numbered(validateQuizzes(ai.quizzes)), offset)]
  ELSE [threw |-> ai.outcome # "tooSimple" /\ ~AiFailureIsCaught(ai), quizzes |-> <<>>]

\* correctLabel of the canned quiz of each idiom, before redistribution
CannedCorrectLabel(idiom) ==
  CASE idiom = "async" -> "B" [] idiom = "useEffect" -> "B"
    [] idiom = "tryCatch" -> "C" [] idiom = "useState" -> "A"

RECURSIVE FallbackFrom(_, _, _)
\* The four pattern tests of generateFallbackQuizzes from idiom i on.
FallbackFrom(content, i, qs) ==
  IF i > Len(Idioms) THEN qs
  ELSE IF Idioms[i] \in content
    THEN FallbackFrom(content, i + 1,
           Append(qs, [level |-> Len(qs) + 1, question |-> Idioms[i],
                            options |-> 3, correctLabel |-> CannedCorrectLabel(Idioms[i]),
                            hasCorrect |-> TRUE, malformed |-> FALSE]))
  ELSE FallbackFrom(content, i + 1, qs)

generateFallbackQuizzes(content, offset) ==
  distributeCorrectAnswers(FallbackFrom(content, 1, <<>>), offset)

\* prisma.quiz.create({ data: { level, question, correctLabel, status: "pending" } })
QuizRow(quiz) ==
  [level |-> quiz.level, question |-> quiz.question, status |-> "pending",
   correctLabel |-> quiz.correctLabel, userAnswer |-> "", isCorrect |-> FALSE,
   answeredAt |-> -1]

\* Mutant: the zero-quiz branch resets unlockLevel only.
MarkUnlocked_KeepTotal(a) == [a EXCEPT !.unlockLevel = 0]

\* prisma.artifact.update({ data: { totalQuestions: 0, unlockLevel: 0 } })
MarkUnlocked(a) == [a EXCEPT !.totalQuestions = 0, !.unlockLevel = 0]

\* Mutant: a strict comparison and no zero-question case.
IsUnlocked_Strict(count, total) == count > total

\* isUnlocked = totalQuestions === 0 || answeredCorrectly >= totalQuestions
IsUnlocked(count, total) == total = 0 \/ count >= total

NoArtResp ==
  [op |-> "none", status |-> 0, total |-> 0, currentLevel |-> 0, isUnlocked |-> FALSE,
   generated |-> FALSE, ai |-> "", fallback |-> FALSE]

ArtResp(op, total, level, unlocked) ==
  [NoArtResp EXCEPT !.op = op, !.status = 200, !.total = total,
                    !.currentLevel = level, !.isUnlocked = unlocked]

\* An artifact as the chat turn that produced it leaves it: no quizzes yet.
InitArtifact ==
  /\ \E content \in Contents, total \in {0, 2} :
       artifact = [content |-> content, totalQuestions |-> total, unlockLevel |-> 0]
  /\ artQuizzes = <<>>
  /\ artResp = NoArtResp

\* GET /api/artifacts/[id]/quizzes
ListQuizzes ==
  /\ artResp' = ArtResp("list", Len(artQuizzes), AnsweredCorrectly(artQuizzes) + 1,
                        IsUnlocked(AnsweredCorrectly(artQuizzes), Len(artQuizzes)))
  /\ UNCHANGED <<artifact, artQuizzes>>

\* POST /api/artifacts/[id]/quizzes
GenerateQuizzes(ai, offset) ==
  IF Len(artQuizzes) > 0
    THEN /\ artResp' = ArtResp("generate", Len(artQuizzes),
                               AnsweredCorrectly(artQuizzes) + 1,
                               AnsweredCorrectly(artQuizzes) >= Len(artQuizzes))
         /\ UNCHANGED <<artifact, artQuizzes>>
  ELSE LET first == generateQuizzesForArtifact(ai, offset)
           useFallback == Len(first.quizzes) = 0
           generated == IF useFallback
                          THEN generateFallbackQuizzes(artifact.content, offset)
                          ELSE first.quizzes
       IN IF first.threw
            THEN /\ artResp' = [NoArtResp EXCEPT !.op = "generate", !.status = 500,
                                                 !.ai = ai.outcome]
                 /\ UNCHANGED <<artifact, artQuizzes>>
          ELSE IF Len(generated) = 0
            THEN /\ artifact' = MarkUnlocked(artifact)
                 /\ artResp' = [ArtResp("generate", 0, 0, TRUE) EXCEPT
                                  !.generated = TRUE, !.ai = ai.outcome,
                                  !.fallback = useFallback]
                 /\ UNCHANGED artQuizzes
          ELSE /\ artQuizzes' = [i \in 1..Len(generated) |-> QuizRow(generated[i])]
               /\ artifact' = [artifact EXCEPT !.totalQuestions = Len(generated),
                                               !.unlockLevel = 0]
               /\ artResp' = [ArtResp("generate", Len(generated), 1, FALSE) EXCEPT
                                !.generated = TRUE, !.ai = ai.outcome,
                                !.fallback = useFallback]

\* PATCH /api/artifacts/[id]/quizzes/[quizId] with a well-formed answer
AnswerQuiz(q, answer) ==
  IF q \notin DOMAIN artQuizzes
    THEN /\ artResp' = [NoArtResp EXCEPT !.op = "answer", !.status = 404]
         /\ UNCHANGED <<artifact, artQuizzes>>
  ELSE IF AlreadyAnswered(artQuizzes[q])
    THEN /\ artResp' = [NoArtResp EXCEPT !.op = "answer", !.status = 400]
         /\ UNCHANGED <<artifact, artQuizzes>>
  ELSE LET updated == QuizUpdate(artQuizzes, q, answer,
                                 CheckAnswer(answer, artQuizzes[q]), 0)
           count == AnsweredCorrectly(updated)
       IN /\ artQuizzes' = updated
          /\ artifact' = [artifact EXCEPT !.unlockLevel = count]
          /\ artResp' = ArtResp("answer", Len(updated), count,
                                IsUnlockedAfterAnswer(count, Len(updated)))

\* DELETE /api/artifacts/[id]/quizzes
DeleteQuizzes ==
  /\ artQuizzes' = <<>>
  /\ artifact' = MarkUnlocked(artifact)
  /\ artResp' = [NoArtResp EXCEPT !.op = "delete", !.status = 200]

\* Values of an optional number in the progress body; -1 stands for undefined.
ProgressValues == -1..MaxProgress

\* PATCH /api/conversations/[id]/artifacts/[artifactId]/progress
UpdateProgress(level, total) ==
  LET updated == [artifact EXCEPT
                    !.unlockLevel = IF level # -1 THEN level ELSE @,
                    !.totalQuestions = IF total # -1 THEN total ELSE @]
  IN /\ artifact' = updated
     /\ artResp' = ArtResp("progress", updated.totalQuestions, updated.unlockLevel,
                           IsUnlocked(updated.unlockLevel, updated.totalQuestions))
     /\ UNCHANGED artQuizzes

----------------------------------------------------------------------------
(* History compaction: compactConversationIfNeeded of
   lib/conversation-compactor.ts on one append-only conversation. A message
   content is its kind and its length in characters; all messages of a
   conversation have the same length. *)

TOKEN_THRESHOLD == 40000
RECENT_MESSAGES_TO_KEEP == 6
MIN_MESSAGES_FOR_COMPACT == 10

\* Message lengths in characters: 1 token, 3,750 tokens, 4,000 tokens (rounded up).
MessageChars == {4, 15000, 15997}

Roles == {"user", "assistant"}

Message(role, chars) ==
  [role |-> role, content |-> [kind |-> "text", n |-> chars], attachments |-> 0]

\* Mutant: Math.floor instead of Math.ceil.
estimateTokens_Floor(content) == content.n \div 4

\* Math.ceil(content.length / 4)
estimateTokens(content) == (content.n + 3) \div 4

RECURSIVE MessageTokens(_)
\* messages.reduce((sum, m) => sum + estimateTokens(m.content), 0)
MessageTokens(ms) ==
  IF ms = <<>> THEN 0 ELSE estimateTokens(Head(ms).content) + MessageTokens(Tail(ms))

NoSummary ==
  [exists |-> FALSE, content |-> 0, lastSummarizedMessageIndex |-> -1,
   summarizedMessageCount |-> 0]

getCompactDecision(ms, existingSummary) ==
  IF Len(ms) < MIN_MESSAGES_FOR_COMPACT THEN "no_compact"
  ELSE IF MessageTokens(ms) < TOKEN_THRESHOLD THEN "no_compact"
  ELSE IF /\ existingSummary.exists
          /\ Len(ms) - (existingSummary.lastSummarizedMessageIndex + 1)
               <= RECENT_MESSAGES_TO_KEEP * 2
    THEN "reuse_existing"
  ELSE "regenerate"

\* Math.min
Min(a, b) == IF a < b THEN a ELSE b

\* Indices are 0-based as in the source: messages[i] is ms[i + 1].
computeKeepCount(ms) ==
  LET keepCount == Min(RECENT_MESSAGES_TO_KEEP, Len(ms) - 1)
      startIndex == Len(ms) - keepCount
  IN IF startIndex >= 0 /\ startIndex < Len(ms) /\ ms[startIndex + 1].role = "assistant"
       THEN Min(keepCount + 1, Len(ms) - 1)
       ELSE keepCount

\* Mutant: the first message is lost in the mapping.
ToApiMessages_DropFirst(ms) ==
  [i \in 1..(Len(ms) - 1) |-> [role |-> ms[i + 1].role, content |-> ms[i + 1].content]]

\* messages.map((msg) => ({ role: msg.role, content: msg.content }))
ToApiMessages(ms) == [i \in 1..Len(ms) |-> [role |-> ms[i].role, content |-> ms[i].content]]

buildCompactedMessages(summary, recentMessages) ==
  <<[role |-> "user", content |-> [kind |-> "summary", n |-> summary]],
    [role |-> "assistant", content |-> [kind |-> "acknowledgement", n |-> 0]]>>
  \o ToApiMessages(recentMessages)

\* What the summarization call can come to.
ProviderOutcomes == {"ok", "providerError", "noApiKey", "noText"}

\* Mutant: a response without text is taken as an empty summary.
SummaryFails_NoTextAccepted(provider) == provider \in {"providerError", "noApiKey"}

\* generateSummary throws: createAnthropicClient without API key, the provider
\* call rejecting, or the response holding no text block
SummaryFails(provider) == provider # "ok"

\* Mutant: lastSummarizedMessageIndex is the split index itself.
NewSummary_IndexOffByOne(splitIndex) ==
  [exists |-> TRUE, content |-> splitIndex, lastSummarizedMessageIndex |-> splitIndex,
   summarizedMessageCount |-> splitIndex]

\* The newSummary object; its content is identified by the number of messages
\* the provider was given to summarize.
NewSummary(splitIndex) ==
  [exists |-> TRUE, content |-> splitIndex, lastSummarizedMessageIndex |-> splitIndex - 1,
   summarizedMessageCount |-> splitIndex]

NoCompactResult ==
  [called |-> FALSE, decision |-> "", threw |-> FALSE, wasCompacted |-> FALSE,
   newSummary |-> NoSummary, messagesForApi |-> <<>>, providerCalls |-> 0,
   inputLength |-> 0, existingSummary |-> NoSummary, keepCount |-> 0]

compactConversationIfNeeded(ms, existingSummary, provider) ==
  LET decision == getCompactDecision(ms, existingSummary)
      keepCount == computeKeepCount(ms)
      splitIndex == Len(ms) - keepCount
      recentMessages == SubSeq(ms, splitIndex + 1, Len(ms))
      base == [NoCompactResult EXCEPT !.called = TRUE, !.decision = decision,
                                      !.inputLength = Len(ms),
                                      !.existingSummary = existingSummary]
  IN IF decision = "no_compact"
       THEN [base EXCEPT !.messagesForApi = ToApiMessages(ms)]
     ELSE IF decision = "reuse_existing" /\ existingSummary.exists
       THEN [base EXCEPT !.wasCompacted = TRUE, !.keepCount = keepCount,
               !.messagesForApi = buildCompactedMessages(existingSummary.content,
                                                         recentMessages)]
     ELSE IF SummaryFails(provider)
       THEN [base EXCEPT !.threw = TRUE, !.keepCount = keepCount,
                         !.providerCalls = IF provider = "noApiKey" THEN 0 ELSE 1]
     ELSE [base EXCEPT !.wasCompacted = TRUE, !.keepCount = keepCount,
             !.providerCalls = 1,
             !.newSummary = NewSummary(splitIndex),
             !.messagesForApi = buildCompactedMessages(splitIndex, recentMessages)]

\* Adjacent messages of the same role.
Repeats(ms) == Cardinality({i \in 1..(Len(ms) - 1) : ms[i].role = ms[i + 1].role})

\* A conversation opened by the user.
InitConversation ==
  /\ \E chars \in MessageChars : messages = <<Message("user", chars)>>
  /\ compactSummary = NoSummary
  /\ compacted = NoCompactResult

\* A message is stored at the end of the conversation.
AppendMessage(role) ==
  /\ Len(messages) < MaxMessages
  /\ Repeats(Append(messages, Message(role, messages[1].content.n))) <= MaxRepeats
  /\ messages' = Append(messages, Message(role, messages[1].content.n))
  /\ UNCHANGED <<compactSummary, compacted>>

\* The caller stores a returned newSummary in the conversation metadata.
PersistSummary(result, stored) ==
  IF result.newSummary.exists THEN result.newSummary ELSE stored

\* One chat turn: compactConversationIfNeeded on the stored messages and the
\* stored summary, then the caller's write of newSummary.
Compact(provider) ==
  LET result == compactConversationIfNeeded(messages, compactSummary, provider) IN
  /\ compacted' = result
  /\ compactSummary' = PersistSummary(result, compactSummary)
  /\ UNCHANGED messages

----------------------------------------------------------------------------
(* Answer redistribution in full: distributeCorrectAnswers of
   lib/conversation-compactor.ts on quizzes with their options, as
   validateQuizzes lets them through (three options or more, the correct
   label among them). Math.random is an offset and one permutation per quiz. *)

Option(label, text) == [label |-> label, text |-> text]

OptionQuiz(options, correctLabel) == [options |-> options, correctLabel |-> correctLabel]

\* Validated quizzes: three distinct texts; a text given twice; a label given
\* twice; four options.
ValidatedQuizzes ==
  {OptionQuiz(<<Option("A", "t1"), Option("B", "t2"), Option("C", "t3")>>, "B"),
   OptionQuiz(<<Option("A", "t1"), Option("B", "t1"), Option("C", "t3")>>, "A"),
   OptionQuiz(<<Option("A", "t1"), Option("A", "t2"), Option("C", "t3")>>, "C"),
   OptionQuiz(<<Option("A", "t1"), Option("B", "t2"), Option("C", "t3"), Option("D", "t4")>>, "D")}

\* The outcomes of shuffleArray on n elements.
Shuffles(n) == {p \in [1..n -> 1..n] : \A i, j \in 1..n : p[i] = p[j] => i = j}

shuffleArray(array, p) == [i \in 1..Len(array) |-> array[p[i]]]

\* Array.prototype.findIndex by label, 1-based; 0 when nothing is found
FindIndexByLabel(options, label) ==
  LET found == {i \in DOMAIN options : options[i].label = label} IN
  IF found = {} THEN 0 ELSE CHOOSE i \in found : \A j \in found : i <= j

\* labels[idx]: undefined beyond the third option
LabelAt(idx) == IF idx <= Len(Labels) THEN Labels[idx] ELSE "undefined"

\* Order of the labels under sort((a, b) => a.label.localeCompare(b.label))
LabelRank(label) ==
  CASE label = "A" -> 1 [] label = "B" -> 2 [] label = "C" -> 3 [] OTHER -> 4

SortByLabel(options) ==
  [i \in 1..Len(options) |->
     options[CHOOSE j \in DOMAIN options : LabelRank(options[j].label) = i]]

\* The callback of quizzes.map for one quiz. With an undefined label among
\* the options, a.label.localeCompare throws or not depending on the order in
\* which the engine hands the options to the comparator.
DistributeQuiz(quiz, targetLabel, p, sortThrows) ==
  LET first == FindIndexByLabel(quiz.options, quiz.correctLabel) IN
  IF first = 0 THEN [threw |-> FALSE, quiz |-> quiz]
  ELSE
    LET correctOption == quiz.options[first]
        shuffledOptions == shuffleArray(quiz.options, p)
        relabeledOptions == [idx \in DOMAIN shuffledOptions |->
                               Option(LabelAt(idx), shuffledOptions[idx].text)]
        matching == {idx \in DOMAIN relabeledOptions :
                       relabeledOptions[idx].text = correctOption.text}
        newCorrectLabel == LabelAt(CHOOSE idx \in matching : \A j \in matching : j <= idx)
        correctIdx == FindIndexByLabel(relabeledOptions, newCorrectLabel)
        targetIdx == FindIndexByLabel(relabeledOptions, targetLabel)
        swap == newCorrectLabel # targetLabel /\ correctIdx # 0 /\ targetIdx # 0
        swapped == IF swap
                     THEN [relabeledOptions EXCEPT
                             ![correctIdx].label = relabeledOptions[targetIdx].label,
                             ![targetIdx].label = relabeledOptions[correctIdx].label]
                     ELSE relabeledOptions
        undefinedLabel == \E idx \in DOMAIN swapped : swapped[idx].label = "undefined"
    IN IF undefinedLabel /\ sortThrows
         THEN [threw |-> TRUE, quiz |-> quiz]
         ELSE [threw |-> FALSE,
               quiz |-> OptionQuiz(SortByLabel(swapped),
                                   IF swap THEN targetLabel ELSE newCorrectLabel)]

\* distributeCorrectAnswers(quizzes) with labelIndex starting at offset
DistributeWithOptions(qs, offset, shuffles, sortThrows) ==
  LET each == [i \in 1..Len(qs) |->
                 DistributeQuiz(qs[i], RoundRobinLabel(offset, i), shuffles[i], sortThrows)]
  IN [threw |-> \E i \in DOMAIN each : each[i].threw,
      quizzes |-> [i \in DOMAIN each |-> each[i].quiz]]

NotRelabelled ==
  [called |-> FALSE, input |-> <<>>, offset |-> 0, shuffles |-> <<>>, threw |-> FALSE,
   output |-> <<>>]

\* Three validated quizzes arrive, at most one of them unusual.
InitRelabel ==
  \E usual \in ValidatedQuizzes, other \in ValidatedQuizzes, at \in 1..3 :
    /\ Len(usual.options) = 3
    /\ relabelled = [NotRelabelled EXCEPT
                       !.input = [i \in 1..3 |-> IF i = at THEN other ELSE usual]]

\* One call of distributeCorrectAnswers on the quizzes that arrived.
Distribute(offset, sortThrows) ==
  /\ ~relabelled.called
  /\ \E shuffles \in [1..3 -> Shuffles(4) \cup Shuffles(3)] :
       /\ \A i \in 1..3 : shuffles[i] \in Shuffles(Len(relabelled.input[i].options))
       /\ LET result == DistributeWithOptions(relabelled.input, offset, shuffles,
                                              sortThrows)
          IN relabelled' = [relabelled EXCEPT
                              !.called = TRUE, !.offset = offset, !.shuffles = shuffles,
                              !.threw = result.threw,
                              !.output = IF result.threw THEN <<>> ELSE result.quizzes]

----------------------------------------------------------------------------
(* Daily token usage: updateTokenUsage(userId, tokens, category) of
   lib/token-limit.ts, for one user on one day. The calls interleave at their
   awaits: the upsert, the read (findUnique) and the breakdown write (update).
   The upsert is one storage statement on the unique (userId, date). *)

Categories == {"learning", "chat"}
TokenAmounts == {1, 2}

NoBreakdown == [k \in Categories |-> 0]

NoUsage == [exists |-> FALSE, tokensUsed |-> 0, breakdown |-> NoBreakdown]

\* Mutant: the update branch writes the call's tokens instead of incrementing.
UpsertUsage_Overwrite(row, tokens, category) ==
  [exists |-> TRUE, tokensUsed |-> tokens,
   breakdown |-> IF row.exists THEN row.breakdown
                 ELSE [NoBreakdown EXCEPT ![category] = tokens]]

\* prisma.tokenUsage.upsert({ where, create: { tokensUsed: tokens, breakdown:
\*   { [category]: tokens } }, update: { tokensUsed: { increment: tokens } } })
UpsertUsage(row, tokens, category) ==
  IF row.exists
    THEN [row EXCEPT !.tokensUsed = @ + tokens]
    ELSE [exists |-> TRUE, tokensUsed |-> tokens,
          breakdown |-> [NoBreakdown EXCEPT ![category] = tokens]]

\* breakdown[category] = (breakdown[category] || 0) + tokens
AddToBreakdown(breakdown, tokens, category) ==
  [breakdown EXCEPT ![category] = @ + tokens]

IdleCall == [pc |-> "idle", tokens |-> 0, category |-> "", found |-> FALSE,
             breakdown |-> NoBreakdown]

InitUsage ==
  /\ usage \in {NoUsage,
                [exists |-> TRUE, tokensUsed |-> 5,
                 breakdown |-> [NoBreakdown EXCEPT !["learning"] = 5]]}
  /\ usageAtStart = usage
  /\ calls = [c \in Calls |-> IdleCall]

\* await prisma.tokenUsage.upsert(...)
Upsert(c, tokens, category) ==
  /\ calls[c].pc = "idle"
  /\ usage' = UpsertUsage(usage, tokens, category)
  /\ calls' = [calls EXCEPT ![c] = [IdleCall EXCEPT !.pc = "findUnique",
                                                    !.tokens = tokens,
                                                    !.category = category]]
  /\ UNCHANGED usageAtStart

\* const existingUsage = await prisma.tokenUsage.findUnique(...)
FindUnique(c) ==
  /\ calls[c].pc = "findUnique"
  /\ calls' = [calls EXCEPT ![c] =
       IF usage.exists
         THEN [calls[c] EXCEPT !.pc = "update", !.found = TRUE,
                 !.breakdown = AddToBreakdown(usage.breakdown, calls[c].tokens,
                                              calls[c].category)]
         ELSE [calls[c] EXCEPT !.pc = "done"]]
  /\ UNCHANGED <<usage, usageAtStart>>

\* await prisma.tokenUsage.update({ where, data: { breakdown } })
UpdateBreakdown(c) ==
  /\ calls[c].pc = "update"
  /\ usage' = [usage EXCEPT !.breakdown = calls[c].breakdown]
  /\ calls' = [calls EXCEPT ![c].pc = "done"]
  /\ UNCHANGED usageAtStart

----------------------------------------------------------------------------
(* Generation and deletion racing on one artifact
   (app/api/artifacts/[id]/quizzes/route.ts, POST and DELETE, split at their
   storage awaits).  Whether the Quiz table holds a unique index on
   (artifactId, level) is not visible in the handlers: both are modelled. *)

Posts == 1..NumPosts

IdlePost == [pc |-> "idle", kind |-> "", generated |-> <<>>, created |-> 0,
             status |-> 0, generatedFlag |-> FALSE]

PostDone(post, status, generatedFlag) ==
  [post EXCEPT !.pc = "done", !.status = status, !.generatedFlag = generatedFlag]

\* Some row already has one of these levels.
LevelTaken(rows, generated) ==
  \E i \in DOMAIN rows, j \in DOMAIN generated : rows[i].level = generated[j].level

InitGenerate ==
  /\ posts = [r \in Posts |-> IdlePost]
  /\ quizLevelUnique \in BOOLEAN

\* POST: findFirst of the artifact, then prisma.quiz.count({ where: { artifactId } })
PostCount(r) ==
  /\ posts[r].pc = "idle"
  /\ posts' = [posts EXCEPT ![r] =
       IF Len(artQuizzes) > 0
         THEN PostDone([IdlePost EXCEPT !.kind = "POST"], 200, FALSE)
       ELSE [IdlePost EXCEPT !.kind = "POST", !.pc = "generate"]]
  /\ UNCHANGED <<artVars, quizLevelUnique>>

\* await generateQuizzesForArtifact(...), then the fallback if it is empty
PostGenerate(r, ai, offset) ==
  LET first == generateQuizzesForArtifact(ai, offset)
      generated == IF Len(first.quizzes) = 0
                     THEN generateFallbackQuizzes(artifact.content, offset)
                     ELSE first.quizzes
  IN /\ posts[r].pc = "generate"
     /\ posts' = [posts EXCEPT ![r] =
          IF first.threw THEN PostDone(posts[r], 500, FALSE)
          ELSE IF Len(generated) = 0 THEN [posts[r] EXCEPT !.pc = "markUnlocked"]
          ELSE [posts[r] EXCEPT !.pc = "transaction",
                         !.generated = [i \in 1..Len(generated) |->
                                          QuizRow(generated[i])]]]
     /\ UNCHANGED <<artVars, quizLevelUnique>>

\* await prisma.artifact.update({ data: { totalQuestions: 0, unlockLevel: 0 } })
PostMarkUnlocked(r) ==
  /\ posts[r].pc = "markUnlocked"
  /\ artifact' = MarkUnlocked(artifact)
  /\ posts' = [posts EXCEPT ![r] = PostDone(posts[r], 200, TRUE)]
  /\ UNCHANGED <<artQuizzes, artResp, quizLevelUnique>>

\* await prisma.$transaction(generatedQuizzes.map(prisma.quiz.create)); with a
\* unique index a taken level makes it throw and nothing is inserted
PostTransaction(r) ==
  /\ posts[r].pc = "transaction"
  /\ IF quizLevelUnique /\ LevelTaken(artQuizzes, posts[r].generated)
       THEN /\ posts' = [posts EXCEPT ![r] = PostDone(posts[r], 500, FALSE)]
            /\ UNCHANGED artQuizzes
     ELSE /\ artQuizzes' = artQuizzes \o posts[r].generated
          /\ posts' = [posts EXCEPT ![r].pc = "updateArtifact",
                                    ![r].created = Len(posts[r].generated)]
  /\ UNCHANGED <<artifact, artResp, quizLevelUnique>>

\* await prisma.artifact.update({ data: { totalQuestions:
\*   createdQuizzes.length, unlockLevel: 0 } })
PostUpdateArtifact(r) ==
  /\ posts[r].pc = "updateArtifact"
  /\ artifact' = [artifact EXCEPT !.totalQuestions = posts[r].created,
                                  !.unlockLevel = 0]
  /\ posts' = [posts EXCEPT ![r] = PostDone(posts[r], 200, TRUE)]
  /\ UNCHANGED <<artQuizzes, artResp, quizLevelUnique>>

\* DELETE: findFirst of the artifact, then prisma.quiz.deleteMany({ where: { artifactId } })
DeleteMany(r) ==
  /\ posts[r].pc = "idle"
  /\ artQuizzes' = <<>>
  /\ posts' = [posts EXCEPT ![r] = [IdlePost EXCEPT !.kind = "DELETE", !.pc = "reset"]]
  /\ UNCHANGED <<artifact, artResp, quizLevelUnique>>

\* await prisma.artifact.update({ data: { unlockLevel: 0, totalQuestions: 0 } })
DeleteReset(r) ==
  /\ posts[r].pc = "reset"
  /\ artifact' = MarkUnlocked(artifact)
  /\ posts' = [posts EXCEPT ![r] = PostDone(posts[r], 200, FALSE)]
  /\ UNCHANGED <<artQuizzes, artResp, quizLevelUnique>>

----------------------------------------------------------------------------
(* Rate limiting (lib/rate-limit.ts; the same in-memory limiter is also in
   the rate limiter file appended to lib/conversation-compactor.ts).
   Time is Date.now() in ticks; a window is WindowMs ticks long.  The
   in-memory check is synchronous; the Redis check has two awaits: the
   pipeline and, for a request over the limit, the removal of its entry. *)

Identifiers == {"chat:u1", "auth:u1"}
Checks == 1..NumChecks

NoEntry == [exists |-> FALSE, count |-> 0, resetAt |-> 0]

NoRateResult == [called |-> FALSE, identifier |-> "", success |-> FALSE,
                 remaining |-> 0, resetAt |-> 0]

RateResult(identifier, success, remaining, resetAt) ==
  [called |-> TRUE, identifier |-> identifier, success |-> success,
   remaining |-> remaining, resetAt |-> resetAt]

\* !entry || entry.resetAt <= now
WindowExpired(entry, at) == ~entry.exists \/ entry.resetAt <= at

\* checkMemoryRateLimit(identifier, { limit: Limit, windowSec }) at Date.now()
\* = at: the store afterwards and the result.
checkMemoryRateLimit(store, identifier, at) ==
  LET entry == store[identifier] IN
  IF WindowExpired(entry, at)
    THEN [store |-> [store EXCEPT ![identifier] =
                       [exists |-> TRUE, count |-> 1, resetAt |-> at + WindowMs]],
          result |-> RateResult(identifier, TRUE, Limit - 1, at + WindowMs)]
  ELSE IF entry.count >= Limit
    THEN [store |-> store,
          result |-> RateResult(identifier, FALSE, 0, entry.resetAt)]
  ELSE [store |-> [store EXCEPT ![identifier].count = @ + 1],
        result |-> RateResult(identifier, TRUE, Limit - (entry.count + 1),
                              entry.resetAt)]

\* for (const [key, entry] of memoryStore.entries())
\*   if (entry.resetAt <= now) memoryStore.delete(key)
SweepExpired(store, at) ==
  [id \in Identifiers |->
     IF store[id].exists /\ store[id].resetAt <= at THEN NoEntry ELSE store[id]]

\* One admitted request, as the log of the caller sees it.
Admission(identifier, at, via, member) ==
  [identifier |-> identifier, at |-> at, via |-> via, member |-> member]

IdleCheck == [pc |-> "idle", identifier |-> "", now |-> 0, currentCount |-> 0,
              success |-> FALSE, via |-> ""]

InitRateLimit ==
  /\ rlNow = 0
  /\ memoryStore = [id \in Identifiers |-> NoEntry]
  /\ sortedSet = [id \in Identifiers |-> {}]
  /\ rlCalls = [c \in Checks |-> IdleCheck]
  /\ admitted = <<>>
  /\ rlResult = NoRateResult

\* checkRateLimitSync(identifier, config): the in-memory check
CheckSync(identifier) ==
  LET checked == checkMemoryRateLimit(memoryStore, identifier, rlNow) IN
  /\ memoryStore' = checked.store
  /\ rlResult' = checked.result
  /\ admitted' = IF checked.result.success
                   THEN Append(admitted, Admission(identifier, rlNow, "memory", 0))
                   ELSE admitted
  /\ UNCHANGED <<rlNow, sortedSet, rlCalls>>

\* the setInterval callback
Sweep ==
  /\ memoryStore' = SweepExpired(memoryStore, rlNow)
  /\ UNCHANGED <<rlNow, sortedSet, rlCalls, admitted, rlResult>>

\* Date.now() advances
AdvanceClock ==
  /\ rlNow < MaxNow
  /\ rlNow' = rlNow + 1
  /\ UNCHANGED <<memoryStore, sortedSet, rlCalls, admitted, rlResult>>

\* pipeline.zremrangebyscore(key, 0, windowStart)
TrimWindow(set, windowStart) == {e \in set : ~(0 <= e.score /\ e.score <= windowStart)}

\* redis.zremrangebyscore(key, now, now)
RemoveRejected(set, at, member) == {e \in set : e.score # at}

\* checkRateLimit with a Redis client: const now = Date.now() in
\* checkRedisRateLimit, before the pipeline is sent
RedisStart(c, identifier) ==
  /\ rlCalls[c].pc = "idle"
  /\ rlCalls' = [rlCalls EXCEPT ![c] = [IdleCheck EXCEPT !.pc = "pipeline",
                                                       !.identifier = identifier,
                                                       !.now = rlNow]]
  /\ UNCHANGED <<rlNow, memoryStore, sortedSet, admitted, rlResult>>

\* await pipeline.exec(): trim, count, add, expire, served as one batch; or the
\* call throws and checkRateLimit falls back to the in-memory check
RedisPipeline(c, throws) ==
  LET call == rlCalls[c]
      key == call.identifier
      trimmed == TrimWindow(sortedSet[key], call.now - WindowMs)
      currentCount == Cardinality(trimmed)
  IN /\ call.pc = "pipeline"
     /\ IF throws
          THEN /\ rlCalls' = [rlCalls EXCEPT ![c].pc = "fallback"]
               /\ UNCHANGED <<sortedSet, admitted>>
        ELSE /\ sortedSet' = [sortedSet EXCEPT ![key] =
                                trimmed \cup {[score |-> call.now, member |-> c]}]
             /\ IF currentCount >= Limit
                  THEN /\ rlCalls' = [rlCalls EXCEPT ![c].pc = "remove",
                                                     ![c].currentCount = currentCount]
                       /\ UNCHANGED admitted
                ELSE /\ rlCalls' = [rlCalls EXCEPT ![c].pc = "done",
                                                   ![c].currentCount = currentCount,
                                                   ![c].success = TRUE,
                                                   ![c].via = "redis"]
                     /\ admitted' = Append(admitted,
                                           Admission(key, call.now, "redis", c))
     /\ UNCHANGED <<rlNow, memoryStore, rlResult>>

\* await redis.zremrangebyscore(key, now, now), then success: false; or the
\* call throws and checkRateLimit falls back to the in-memory check
RedisRemove(c, throws) ==
  LET call == rlCalls[c] IN
  /\ call.pc = "remove"
  /\ IF throws
       THEN /\ rlCalls' = [rlCalls EXCEPT ![c].pc = "fallback"]
            /\ UNCHANGED sortedSet
     ELSE /\ sortedSet' = [sortedSet EXCEPT ![call.identifier] =
                             RemoveRejected(sortedSet[call.identifier], call.now, c)]
          /\ rlCalls' = [rlCalls EXCEPT ![c].pc = "done", ![c].via = "redis"]
  /\ UNCHANGED <<rlNow, memoryStore, admitted, rlResult>>

\* catch (error) { ... } return checkMemoryRateLimit(identifier, config)
MemoryFallback(c) ==
  LET call == rlCalls[c]
      checked == checkMemoryRateLimit(memoryStore, call.identifier, rlNow)
  IN /\ call.pc = "fallback"
     /\ memoryStore' = checked.store
     /\ rlResult' = checked.result
     /\ rlCalls' = [rlCalls EXCEPT ![c].pc = "done", ![c].via = "memory",
                                   ![c].success = checked.result.success]
     /\ admitted' = IF checked.result.success
                      THEN Append(admitted,
                                  Admission(call.identifier, rlNow, "memory", c))
                      ELSE admitted
     /\ UNCHANGED <<rlNow, sortedSet>>

----------------------------------------------------------------------------
(* Role update (app/api/admin/members/[id]/role/route.ts, PUT).  The handler
   has two storage awaits: the lookup of the member (findFirst) and the
   update.  The session carries the requester's id, userType and
   organizationId. *)

Members == {"owner1", "admin1", "member1", "owner2", "owner0"}
Puts == 1..NumPuts

InitialUsers ==
  [u \in Members |->
     CASE u = "owner1" -> [userType |-> "owner", organizationId |-> "org1"]
       [] u = "admin1" -> [userType |-> "admin", organizationId |-> "org1"]
       [] u = "member1" -> [userType |-> "member", organizationId |-> "org1"]
       [] u = "owner2" -> [userType |-> "owner", organizationId |-> "org2"]
       [] OTHER -> [userType |-> "owner", organizationId |-> ""]]

\* Who sends the request: a signed-in user or nobody.
Requesters == Members \cup {"anonymous"}

\* The :id of the path: a user id, or one that no user has.
MemberIds == Members \cup {"nobody"}

\* The body's role.
RoleBodies == {"admin", "member", "owner"}

\* updateRoleSchema: role: z.enum(["admin", "member"])
updateRoleSchema(role) == role \in {"admin", "member"}

\* isOrganizationOwner(session.user.userType)
isOrganizationOwner(userType) == userType = "owner"

\* Mutant: the lookup does not filter on the requester's organization.
FindMember_AnyOrganization(table, memberId, organizationId) ==
  /\ memberId \in Members
  /\ table[memberId].userType \in {"member", "admin"}

\* prisma.user.findFirst({ where: { id: memberId, organizationId,
\*   userType: { in: ["member", "admin"] } } }) finds a row
FindMember(table, memberId, organizationId) ==
  /\ memberId \in Members
  /\ table[memberId].organizationId = organizationId
  /\ table[memberId].userType \in {"member", "admin"}

IdlePut == [pc |-> "idle", requester |-> "", memberId |-> "", role |-> "",
            code |-> "", status |-> 0]

\* The response: an error code, or the id and role of the updated user.
PutDone(put, code, status) ==
  IF code = "OK"
    THEN [put EXCEPT !.pc = "done", !.code = code, !.status = status, !.requester = ""]
  ELSE [IdlePut EXCEPT !.pc = "done", !.code = code, !.status = status]

InitRoles ==
  /\ orgUsers = InitialUsers
  /\ puts = [r \in Puts |-> IdlePut]

\* PUT up to the member lookup: session, owner check, organization, body,
\* own-role check, findFirst
PutStart(r, requester, memberId, role) ==
  LET put == [IdlePut EXCEPT !.requester = requester, !.memberId = memberId,
                             !.role = role]
  IN /\ puts[r].pc \in {"idle", "done"}
     /\ puts' = [puts EXCEPT ![r] =
          IF requester = "anonymous"
            THEN PutDone(put, "UNAUTHORIZED", 401)
          ELSE IF ~isOrganizationOwner(orgUsers[requester].userType)
            THEN PutDone(put, "FORBIDDEN", 403)
          ELSE IF orgUsers[requester].organizationId = ""
            THEN PutDone(put, "NOT_FOUND", 404)
          ELSE IF ~updateRoleSchema(role)
            THEN PutDone(put, "VALIDATION_ERROR", 400)
          ELSE IF memberId = requester
            THEN PutDone(put, "FORBIDDEN", 403)
          ELSE IF ~FindMember(orgUsers, memberId, orgUsers[requester].organizationId)
            THEN PutDone(put, "NOT_FOUND", 404)
          ELSE [put EXCEPT !.pc = "update"]]
     /\ UNCHANGED orgUsers

\* await prisma.user.update({ where: { id: memberId }, data: { userType: role } })
PutUpdate(r) ==
  /\ puts[r].pc = "update"
  /\ orgUsers' = [orgUsers EXCEPT ![puts[r].memberId].userType = puts[r].role]
  /\ puts' = [puts EXCEPT ![r] = PutDone(puts[r], "OK", 200)]

----------------------------------------------------------------------------
(* Password reset (app/api/auth/reset-password/route.ts, POST) for one email
   address.  The handler awaits the token lookup, the deletion of an expired
   token, the user lookup, the hash, the password update and the deletion of
   the used token; requests interleave at these awaits. *)

Resets == 1..NumResets

\* The token of the body: the one issued for the address, or another one.
ResetTokens == {"issued", "unknown"}

\* The password of the body; "short" fails the schema.
ResetPasswords == {"pw1", "pw2", "short"}

\* resetPasswordSchema on a body with a well-formed email and a token
resetPasswordSchema(password) == password # "short"

\* bcrypt.hash(password, 12)
BcryptHash(password) == [bcrypt |-> password]

\* verificationToken.expires < new Date()
TokenExpired(expires, at) == expires < at

IdleReset == [pc |-> "idle", token |-> "", password |-> "", code |-> "", status |-> 0]

ResetDone(reset, code, status) ==
  [reset EXCEPT !.pc = "done", !.code = code, !.status = status]

InitReset ==
  /\ resetNow = 0
  /\ verificationToken = [exists |-> TRUE, token |-> "issued", expires |-> TokenExpires]
  /\ resetUser \in {[exists |-> TRUE, passwordHash |-> BcryptHash("old")],
                    [exists |-> FALSE, passwordHash |-> BcryptHash("old")]}
  /\ resets = [r \in Resets |-> IdleReset]
  /\ passwordUpdates = [t \in ResetTokens |-> 0]

\* new Date() advances
ResetTick ==
  /\ resetNow < MaxResetNow
  /\ resetNow' = resetNow + 1
  /\ UNCHANGED <<verificationToken, resetUser, resets, passwordUpdates>>

\* POST up to the token lookup: schema, findFirst, expiry comparison
ResetStart(r, token, password) ==
  LET reset == [IdleReset EXCEPT !.token = token, !.password = password]
      found == verificationToken.exists /\ verificationToken.token = token
  IN /\ resets[r].pc = "idle"
     /\ resets' = [resets EXCEPT ![r] =
          IF ~resetPasswordSchema(password)
            THEN ResetDone(reset, "VALIDATION_ERROR", 400)
          ELSE IF ~found
            THEN ResetDone(reset, "INVALID_TOKEN", 400)
          ELSE IF TokenExpired(verificationToken.expires, resetNow)
            THEN [reset EXCEPT !.pc = "deleteExpired"]
          ELSE [reset EXCEPT !.pc = "findUser"]]
     /\ UNCHANGED <<resetNow, verificationToken, resetUser, passwordUpdates>>

\* await prisma.verificationToken.delete(...) of the expired token; deleting
\* a row that is gone throws, which the handler answers with INTERNAL_ERROR
ResetDeleteExpired(r) ==
  /\ resets[r].pc = "deleteExpired"
  /\ IF verificationToken.exists
       THEN /\ verificationToken' = [verificationToken EXCEPT !.exists = FALSE]
            /\ resets' = [resets EXCEPT ![r] = ResetDone(resets[r], "TOKEN_EXPIRED", 400)]
     ELSE /\ resets' = [resets EXCEPT ![r] = ResetDone(resets[r], "INTERNAL_ERROR", 500)]
          /\ UNCHANGED verificationToken
  /\ UNCHANGED <<resetNow, resetUser, passwordUpdates>>

\* await prisma.user.findUnique({ where: { email } })
ResetFindUser(r) ==
  /\ resets[r].pc = "findUser"
  /\ resets' = [resets EXCEPT ![r] =
       IF resetUser.exists THEN [resets[r] EXCEPT !.pc = "update"]
       ELSE ResetDone(resets[r], "USER_NOT_FOUND", 404)]
  /\ UNCHANGED <<resetNow, verificationToken, resetUser, passwordUpdates>>

\* await bcrypt.hash(password, 12); await prisma.user.update({ data: { passwordHash } })
ResetUpdateUser(r) ==
  /\ resets[r].pc = "update"
  /\ resetUser' = [resetUser EXCEPT !.passwordHash = BcryptHash(resets[r].password)]
  /\ passwordUpdates' = [passwordUpdates EXCEPT ![resets[r].token] = @ + 1]
  /\ resets' = [resets EXCEPT ![r].pc = "deleteUsed"]
  /\ UNCHANGED <<resetNow, verificationToken>>

\* await prisma.verificationToken.delete(...) of the used token
ResetDeleteUsed(r) ==
  /\ resets[r].pc = "deleteUsed"
  /\ IF verificationToken.exists
       THEN /\ verificationToken' = [verificationToken EXCEPT !.exists = FALSE]
            /\ resets' = [resets EXCEPT ![r] = ResetDone(resets[r], "OK", 200)]
     ELSE /\ resets' = [resets EXCEPT ![r] = ResetDone(resets[r], "INTERNAL_ERROR", 500)]
          /\ UNCHANGED verificationToken
  /\ UNCHANGED <<resetNow, resetUser, passwordUpdates>>

----------------------------------------------------------------------------
(* Specifications: one component moves, the others stay as initialised. *)

QuizPinned ==
  /\ quizzes = [q \in QuizIds |-> PendingQuiz(RoundRobinLabel(0, q))]
  /\ unlockLevel = 0
  /\ clock = 0
  /\ quizResp = NoResp
  /\ req = [r \in Reqs |-> IdleReq]

AllocPinned ==
  /\ allocations = <<>>
  /\ accessKey = [u \in Users |-> NoAccessKey]
  /\ creditBalance = [o \in BalanceOwners |-> NoCreditBalance]
  /\ subscription = [u \in Users |-> ""]
  /\ uniqueKey = FALSE
  /\ now = 0
  /\ balanceResp = NoBalanceResp
  /\ get = [g \in Gets |-> IdleGet]

ArtPinned ==
  /\ artifact = [content |-> {}, totalQuestions |-> 0, unlockLevel |-> 0]
  /\ artQuizzes = <<>>
  /\ artResp = NoArtResp

CompactPinned ==
  /\ messages = <<>>
  /\ compactSummary = NoSummary
  /\ compacted = NoCompactResult

RelabelPinned == relabelled = NotRelabelled

GenPinned ==
  /\ posts = [r \in Posts |-> IdlePost]
  /\ quizLevelUnique = FALSE

RatePinned == InitRateLimit

RolePinned == InitRoles

ResetPinned ==
  /\ InitReset
  /\ resetUser.exists

UsagePinned ==
  /\ usage = NoUsage
  /\ usageAtStart = NoUsage
  /\ calls = [c \in Calls |-> IdleCall]

\* Answer requests served one after another.
NextQuizSeq ==
  \E q \in 1..(NumQuizzes + 1), raw \in RawAnswers :
    PatchAnswer(q, raw) /\ UNCHANGED <<allocVars, usageVars, artVars, compactVars, relabelVars, genVars, rateVars, roleVars, resetVars>>

InitQuizSeq == InitQuizzes /\ AllocPinned /\ UsagePinned /\ ArtPinned /\ CompactPinned /\ RelabelPinned /\ GenPinned /\ RatePinned /\ RolePinned /\ ResetPinned

SpecQuizSeq == InitQuizSeq /\ [][NextQuizSeq]_vars

\* Answer requests interleaving at their awaits.
NextQuiz ==
  \/ \E r \in Reqs, q \in 1..(NumQuizzes + 1), raw \in RawAnswers :
       PatchStart(r, q, raw) /\ UNCHANGED <<allocVars, usageVars, artVars, compactVars, relabelVars, genVars, rateVars, roleVars, resetVars>>
  \/ \E r \in Reqs : PatchUpdateQuiz(r) /\ UNCHANGED <<allocVars, usageVars, artVars, compactVars, relabelVars, genVars, rateVars, roleVars, resetVars>>
  \/ \E r \in Reqs : PatchFindMany(r) /\ UNCHANGED <<allocVars, usageVars, artVars, compactVars, relabelVars, genVars, rateVars, roleVars, resetVars>>
  \/ \E r \in Reqs : PatchUpdateArtifact(r) /\ UNCHANGED <<allocVars, usageVars, artVars, compactVars, relabelVars, genVars, rateVars, roleVars, resetVars>>

InitQuiz == InitQuizzes /\ AllocPinned /\ UsagePinned /\ ArtPinned /\ CompactPinned /\ RelabelPinned /\ GenPinned /\ RatePinned /\ RolePinned /\ ResetPinned

SpecQuiz == InitQuiz /\ [][NextQuiz]_vars

\* Balance requests served one after another, over NumMonths months.
NextAllocSeq ==
  \/ \E u \in Users : GetBalance(u) /\ UNCHANGED <<quizVars, usageVars, artVars, compactVars, relabelVars, genVars, rateVars, roleVars, resetVars>>
  \/ \E u \in Users : GetBalanceMemberOnly(u) /\ UNCHANGED <<quizVars, usageVars, artVars, compactVars, relabelVars, genVars, rateVars, roleVars, resetVars>>
  \/ Tick /\ UNCHANGED <<quizVars, usageVars, artVars, compactVars, relabelVars, genVars, rateVars, roleVars, resetVars>>

InitAllocSeq == InitAllocWith(InitialCreditBalances, {"", "pro"}) /\ QuizPinned /\ UsagePinned /\ ArtPinned /\ CompactPinned /\ RelabelPinned /\ GenPinned /\ RatePinned /\ RolePinned /\ ResetPinned

SpecAllocSeq == InitAllocSeq /\ [][NextAllocSeq]_vars

\* Balance requests interleaving at their awaits, within one month.
NextAlloc ==
  \/ \E g \in Gets, u \in Users : GetStart(g, u) /\ UNCHANGED <<quizVars, usageVars, artVars, compactVars, relabelVars, genVars, rateVars, roleVars, resetVars>>
  \/ \E g \in Gets : GetFindAllocation(g) /\ UNCHANGED <<quizVars, usageVars, artVars, compactVars, relabelVars, genVars, rateVars, roleVars, resetVars>>
  \/ \E g \in Gets : GetFindAccessKey(g) /\ UNCHANGED <<quizVars, usageVars, artVars, compactVars, relabelVars, genVars, rateVars, roleVars, resetVars>>
  \/ \E g \in Gets : GetCreate(g) /\ UNCHANGED <<quizVars, usageVars, artVars, compactVars, relabelVars, genVars, rateVars, roleVars, resetVars>>
  \/ TickMonth /\ UNCHANGED <<quizVars, usageVars, artVars, compactVars, relabelVars, genVars, rateVars, roleVars, resetVars>>

InitAllocConc == InitAllocWith({CreditBalanceOf(10, 20, 5)}, {""}) /\ QuizPinned /\ UsagePinned /\ ArtPinned /\ CompactPinned /\ RelabelPinned /\ GenPinned /\ RatePinned /\ RolePinned /\ ResetPinned

SpecAlloc == InitAllocConc /\ [][NextAlloc]_vars

\* updateTokenUsage calls interleaving at their awaits.
NextUsage ==
  \/ \E c \in Calls, tokens \in TokenAmounts, category \in Categories :
       Upsert(c, tokens, category) /\ UNCHANGED <<quizVars, allocVars, artVars, compactVars, relabelVars, genVars, rateVars, roleVars, resetVars>>
  \/ \E c \in Calls : FindUnique(c) /\ UNCHANGED <<quizVars, allocVars, artVars, compactVars, relabelVars, genVars, rateVars, roleVars, resetVars>>
  \/ \E c \in Calls : UpdateBreakdown(c) /\ UNCHANGED <<quizVars, allocVars, artVars, compactVars, relabelVars, genVars, rateVars, roleVars, resetVars>>

InitUsageConc == InitUsage /\ QuizPinned /\ AllocPinned /\ ArtPinned /\ CompactPinned /\ RelabelPinned /\ GenPinned /\ RatePinned /\ RolePinned /\ ResetPinned

SpecUsage == InitUsageConc /\ [][NextUsage]_vars

\* Requests on one artifact served one after another.
NextArtifact ==
  \/ ListQuizzes /\ UNCHANGED <<quizVars, allocVars, usageVars, compactVars, relabelVars, genVars, rateVars, roleVars, resetVars>>
  \/ \E ai \in AiResponses, offset \in 0..2 :
       GenerateQuizzes(ai, offset) /\ UNCHANGED <<quizVars, allocVars, usageVars, compactVars, relabelVars, genVars, rateVars, roleVars, resetVars>>
  \/ \E q \in 1..(Len(Idioms) + 1), answer \in {"A", "B"} :
       AnswerQuiz(q, answer) /\ UNCHANGED <<quizVars, allocVars, usageVars, compactVars, relabelVars, genVars, rateVars, roleVars, resetVars>>
  \/ DeleteQuizzes /\ UNCHANGED <<quizVars, allocVars, usageVars, compactVars, relabelVars, genVars, rateVars, roleVars, resetVars>>
  \/ \E level \in ProgressValues, total \in ProgressValues :
       UpdateProgress(level, total) /\ UNCHANGED <<quizVars, allocVars, usageVars, compactVars, relabelVars, genVars, rateVars, roleVars, resetVars>>

InitArtifactSeq ==
  InitArtifact /\ QuizPinned /\ AllocPinned /\ UsagePinned /\ CompactPinned /\ RelabelPinned /\ GenPinned /\ RatePinned /\ RolePinned /\ ResetPinned

SpecArtifact == InitArtifactSeq /\ [][NextArtifact]_vars

\* Chat turns of one conversation, one after another.
NextCompact ==
  \/ \E role \in Roles :
       AppendMessage(role) /\ UNCHANGED <<quizVars, allocVars, usageVars, artVars, relabelVars, genVars, rateVars, roleVars, resetVars>>
  \/ \E provider \in ProviderOutcomes :
       Compact(provider) /\ UNCHANGED <<quizVars, allocVars, usageVars, artVars, relabelVars, genVars, rateVars, roleVars, resetVars>>

InitCompact ==
  InitConversation /\ QuizPinned /\ AllocPinned /\ UsagePinned /\ ArtPinned /\ RelabelPinned /\ GenPinned /\ RatePinned /\ RolePinned /\ ResetPinned

SpecCompact == InitCompact /\ [][NextCompact]_vars

\* One redistribution of three validated quizzes.
NextRelabel ==
  \E offset \in 0..2, sortThrows \in BOOLEAN :
    Distribute(offset, sortThrows)
      /\ UNCHANGED <<quizVars, allocVars, usageVars, artVars, compactVars, genVars, rateVars, roleVars, resetVars>>

InitRelabelled ==
  InitRelabel /\ QuizPinned /\ AllocPinned /\ UsagePinned /\ ArtPinned /\ CompactPinned /\ GenPinned /\ RatePinned /\ RolePinned /\ ResetPinned

SpecRelabel == InitRelabelled /\ [][NextRelabel]_vars

\* The in-memory limiter: checks, sweeps and the clock.
NextMemoryLimiter ==
  \/ \E id \in Identifiers : CheckSync(id) /\ UNCHANGED <<quizVars, allocVars, usageVars, artVars, compactVars, relabelVars, genVars, roleVars, resetVars>>
  \/ Sweep /\ UNCHANGED <<quizVars, allocVars, usageVars, artVars, compactVars, relabelVars, genVars, roleVars, resetVars>>
  \/ AdvanceClock /\ UNCHANGED <<quizVars, allocVars, usageVars, artVars, compactVars, relabelVars, genVars, roleVars, resetVars>>

InitMemoryLimiter ==
  InitRateLimit /\ QuizPinned /\ AllocPinned /\ UsagePinned /\ ArtPinned /\ CompactPinned /\ RelabelPinned /\ GenPinned /\ RolePinned /\ ResetPinned

SpecMemoryLimiter == InitMemoryLimiter /\ [][NextMemoryLimiter]_vars

\* checkRateLimit with a Redis client: requests interleave at their awaits.
NextRedisLimiter ==
  \/ \E c \in Checks, id \in Identifiers : RedisStart(c, id) /\ UNCHANGED <<quizVars, allocVars, usageVars, artVars, compactVars, relabelVars, genVars, roleVars, resetVars>>
  \/ \E c \in Checks, throws \in BOOLEAN : RedisPipeline(c, throws) /\ UNCHANGED <<quizVars, allocVars, usageVars, artVars, compactVars, relabelVars, genVars, roleVars, resetVars>>
  \/ \E c \in Checks, throws \in BOOLEAN : RedisRemove(c, throws) /\ UNCHANGED <<quizVars, allocVars, usageVars, artVars, compactVars, relabelVars, genVars, roleVars, resetVars>>
  \/ \E c \in Checks : MemoryFallback(c) /\ UNCHANGED <<quizVars, allocVars, usageVars, artVars, compactVars, relabelVars, genVars, roleVars, resetVars>>
  \/ AdvanceClock /\ UNCHANGED <<quizVars, allocVars, usageVars, artVars, compactVars, relabelVars, genVars, roleVars, resetVars>>

InitRedisLimiter ==
  InitRateLimit /\ QuizPinned /\ AllocPinned /\ UsagePinned /\ ArtPinned /\ CompactPinned /\ RelabelPinned /\ GenPinned /\ RolePinned /\ ResetPinned

SpecRedisLimiter == InitRedisLimiter /\ [][NextRedisLimiter]_vars

\* Role updates, interleaved at the member lookup.
NextRoles ==
  \/ \E r \in Puts, requester \in Requesters, memberId \in MemberIds, role \in RoleBodies :
       PutStart(r, requester, memberId, role) /\ UNCHANGED <<quizVars, allocVars, usageVars, artVars, compactVars, relabelVars, genVars, rateVars, resetVars>>
  \/ \E r \in Puts : PutUpdate(r) /\ UNCHANGED <<quizVars, allocVars, usageVars, artVars, compactVars, relabelVars, genVars, rateVars, resetVars>>

InitRoleUpdates ==
  InitRoles /\ QuizPinned /\ AllocPinned /\ UsagePinned /\ ArtPinned /\ CompactPinned /\ RelabelPinned /\ GenPinned /\ RatePinned /\ ResetPinned

SpecRoles == InitRoleUpdates /\ [][NextRoles]_vars

\* Password resets for one address, interleaved at their awaits.
NextReset ==
  \/ \E r \in Resets, token \in ResetTokens, password \in ResetPasswords :
       ResetStart(r, token, password) /\ UNCHANGED <<quizVars, allocVars, usageVars, artVars, compactVars, relabelVars, genVars, rateVars, roleVars>>
  \/ \E r \in Resets : ResetDeleteExpired(r) /\ UNCHANGED <<quizVars, allocVars, usageVars, artVars, compactVars, relabelVars, genVars, rateVars, roleVars>>
  \/ \E r \in Resets : ResetFindUser(r) /\ UNCHANGED <<quizVars, allocVars, usageVars, artVars, compactVars, relabelVars, genVars, rateVars, roleVars>>
  \/ \E r \in Resets : ResetUpdateUser(r) /\ UNCHANGED <<quizVars, allocVars, usageVars, artVars, compactVars, relabelVars, genVars, rateVars, roleVars>>
  \/ \E r \in Resets : ResetDeleteUsed(r) /\ UNCHANGED <<quizVars, allocVars, usageVars, artVars, compactVars, relabelVars, genVars, rateVars, roleVars>>
  \/ ResetTick /\ UNCHANGED <<quizVars, allocVars, usageVars, artVars, compactVars, relabelVars, genVars, rateVars, roleVars>>

InitPasswordReset ==
  InitReset /\ QuizPinned /\ AllocPinned /\ UsagePinned /\ ArtPinned /\ CompactPinned /\ RelabelPinned /\ GenPinned /\ RatePinned /\ RolePinned

SpecReset == InitPasswordReset /\ [][NextReset]_vars

\* Generate and delete requests on one artifact, interleaved at their awaits.
NextGenerate ==
  \/ \E r \in Posts : PostCount(r) /\ UNCHANGED <<quizVars, allocVars, usageVars, compactVars, relabelVars, rateVars, roleVars, resetVars>>
  \/ \E r \in Posts, ai \in AiResponses, offset \in 0..2 :
       PostGenerate(r, ai, offset) /\ UNCHANGED <<quizVars, allocVars, usageVars, compactVars, relabelVars, rateVars, roleVars, resetVars>>
  \/ \E r \in Posts : PostMarkUnlocked(r) /\ UNCHANGED <<quizVars, allocVars, usageVars, compactVars, relabelVars, rateVars, roleVars, resetVars>>
  \/ \E r \in Posts : PostTransaction(r) /\ UNCHANGED <<quizVars, allocVars, usageVars, compactVars, relabelVars, rateVars, roleVars, resetVars>>
  \/ \E r \in Posts : PostUpdateArtifact(r) /\ UNCHANGED <<quizVars, allocVars, usageVars, compactVars, relabelVars, rateVars, roleVars, resetVars>>
  \/ \E r \in Posts : DeleteMany(r) /\ UNCHANGED <<quizVars, allocVars, usageVars, compactVars, relabelVars, rateVars, roleVars, resetVars>>
  \/ \E r \in Posts : DeleteReset(r) /\ UNCHANGED <<quizVars, allocVars, usageVars, compactVars, relabelVars, rateVars, roleVars, resetVars>>

InitGenerateRace ==
  InitArtifact /\ InitGenerate /\ QuizPinned /\ AllocPinned /\ UsagePinned /\ CompactPinned /\ RelabelPinned /\ RatePinned /\ RolePinned /\ ResetPinned

SpecGenerate == InitGenerateRace /\ [][NextGenerate]_vars

----------------------------------------------------------------------------
(* Claims about quiz answer submission *)

\* C1: once a quiz is answered, a later answer request on it (served after the
\* first one) is rejected with ALREADY_ANSWERED and the row keeps status,
\* userAnswer, isCorrect and answeredAt; no request moves it back to pending.
C1_AnsweredQuizRejectsLaterAnswers ==
  [][\A q \in QuizIds :
       quizzes[q].status = "answered" =>
         /\ quizzes'[q] = quizzes[q]
         /\ \A raw \in RawAnswers :
              (MatchesLabel(raw) /\ PatchAnswer(q, raw)) =>
                 (quizResp'.code = "ALREADY_ANSWERED" /\ unlockLevel' = unlockLevel)]_vars

\* A quiz answered first of all, other answers given since, and a later request
\* on it just rejected.
C1_Witness ==
  /\ quizResp.code = "ALREADY_ANSWERED"
  /\ quizResp.quizId \in QuizIds
  /\ quizzes[quizResp.quizId].status = "answered"
  /\ quizzes[quizResp.quizId].answeredAt = 0
  /\ clock >= 2

\* The quizzes answered with their correct label, counted from the rows.
CorrectQuizzes ==
  {q \in QuizIds : quizzes[q].status = "answered"
                     /\ quizzes[q].userAnswer = quizzes[q].correctLabel}

\* C2: after any sequence of answer requests served one after another, the
\* persisted unlockLevel is the number of answered-and-correct quizzes, the
\* stored isCorrect says whether the stored answer is the correct label, and a
\* successful response reports that level and isUnlocked = (level >= total).
C2_UnlockLevelIsCorrectCount ==
  /\ unlockLevel = Cardinality(CorrectQuizzes)
  /\ \A q \in QuizIds : quizzes[q].isCorrect = (q \in CorrectQuizzes)
  /\ quizResp.code = "OK" =>
       /\ quizResp.currentLevel = Cardinality(CorrectQuizzes)
       /\ quizResp.totalQuestions = NumQuizzes
       /\ quizResp.isUnlocked = (Cardinality(CorrectQuizzes) >= NumQuizzes)

\* The scenario: quiz 1 correct, quiz 2 incorrect, quiz 3 correct.
C2_Witness ==
  /\ \A q \in 1..3 : quizzes[q].status = "answered"
  /\ quizzes[1].isCorrect /\ ~quizzes[2].isCorrect /\ quizzes[3].isCorrect
  /\ quizzes[1].answeredAt < quizzes[2].answeredAt
  /\ quizzes[2].answeredAt < quizzes[3].answeredAt
  /\ unlockLevel = 2
  /\ quizResp.code = "OK" /\ quizResp.quizId = 3 /\ ~quizResp.isUnlocked

\* Request r has written the pending -> answered transition of its quiz.
Transitioned(r) ==
  \/ req[r].pc \in {"findMany", "updateArtifact"}
  \/ req[r].pc = "done" /\ req[r].code = "OK"

\* C3: of the concurrent answer requests on one quiz at most one performs the
\* pending -> answered transition (the others are rejected with ALREADY_ANSWERED).
C3_OneTransitionPerQuiz ==
  \A r1, r2 \in Reqs :
    (r1 # r2 /\ Transitioned(r1) /\ Transitioned(r2)) => req[r1].quizId # req[r2].quizId

\* C4: for concurrent answer requests on different quizzes, once all of them
\* have completed the persisted unlockLevel is the number of
\* answered-and-correct quizzes.
C4_SettledUnlockLevelIsCount ==
  ( /\ \A r \in Reqs : req[r].pc \in {"idle", "done"}
    /\ \E r \in Reqs : req[r].pc = "done" /\ req[r].code = "OK"
    /\ \A r1, r2 \in Reqs :
         (r1 # r2 /\ Transitioned(r1) /\ Transitioned(r2)) => req[r1].quizId # req[r2].quizId )
  => unlockLevel = Cardinality(CorrectQuizzes)

----------------------------------------------------------------------------
(* Claims about credit balance resolution *)

\* Rows i and j carry the same (organizationId, userId, periodStart, periodEnd).
SameAllocationKey(i, j) ==
  /\ allocations[i].organizationId = allocations[j].organizationId
  /\ allocations[i].userId = allocations[j].userId
  /\ allocations[i].periodStart = allocations[j].periodStart
  /\ allocations[i].periodEnd = allocations[j].periodEnd

\* C5: concurrent first requests of the period for one member never leave two
\* CreditAllocation rows with the same key, and none of them fails: the loser
\* of the race reads the winner's row. (Stated for requests made up to
\* periodEnd; the last instants of the month are C6's case.)
C5_NoDuplicateAllocation ==
  now <= MonthEnd(now) =>
    /\ \A i, j \in DOMAIN allocations : SameAllocationKey(i, j) => i = j
    /\ \A g \in Gets : get[g].pc = "done" => get[g].resp.status = 200

\* The member's balance was resolved by the last request, in the month of `now`.
MemberResolvedThisMonth ==
  /\ balanceResp.user = "member"
  /\ balanceResp.status = 200
  /\ balanceResp.periodStart = MonthStart(now)

\* C6: two balance resolutions for the same member, one after the other in the
\* same calendar month, return the same allocation, and the second creates no
\* CreditAllocation row.
C6_SecondCallSameAllocation ==
  [][(MemberResolvedThisMonth /\ GetBalance("member")) =>
       /\ allocations' = allocations
       /\ balanceResp'.status = 200
       /\ balanceResp'.allocatedDefined = balanceResp.allocatedDefined
       /\ balanceResp'.allocatedTotal = balanceResp.allocatedTotal
       /\ balanceResp'.allocatedUsed = balanceResp.allocatedUsed]_vars

\* C8: for an allocation-governed account the usable points are the allocation's
\* remainder max(0, allocatedPoints - usedPoints) alone: totalPointsRemaining and
\* every model's remainingConversations are computed from it, never from the
\* plan or purchased pools; with nothing left the request is not allowed and no
\* model is available.
C8_AllocationAloneIsUsable ==
  (balanceResp.status = 200 /\ balanceResp.allocatedDefined) =>
    LET points == balanceResp.allocatedTotal - balanceResp.allocatedUsed
        remaining == IF points > 0 THEN points ELSE 0
    IN /\ balanceResp.allocatedRemaining = remaining
       /\ balanceResp.totalRemaining = remaining
       /\ balanceResp.remainingConversations["sonnet"]
            = remaining \div MODEL_CONSUMPTION_RATE["sonnet"]
       /\ balanceResp.remainingConversations["opus"]
            = remaining \div MODEL_CONSUMPTION_RATE["opus"]
       /\ remaining = 0 =>
            /\ ~balanceResp.canStartConversation
            /\ balanceResp.availableModels = {}
            /\ \A m \in Models : balanceResp.remainingConversations[m] = 0

\* The scenario: a member with allocation {allocatedPoints: 100, usedPoints: 100}
\* and plan points left over.
C8_Witness ==
  /\ balanceResp.status = 200 /\ balanceResp.user = "member"
  /\ balanceResp.allocatedDefined
  /\ balanceResp.allocatedTotal = 100 /\ balanceResp.allocatedUsed = 100
  /\ balanceResp.monthlyRemaining > 0
  /\ ~balanceResp.canStartConversation
  /\ balanceResp.availableModels = {}

\* C9: the remaining-point values a balance response carries (plan, purchased,
\* allocated) are never negative, whatever the usage counters are.
C9_RemainingNeverNegative ==
  balanceResp.status = 200 =>
    /\ balanceResp.monthlyRemaining >= 0
    /\ balanceResp.purchasedRemaining >= 0
    /\ balanceResp.allocatedRemaining >= 0
    /\ balanceResp.totalRemaining >= 0
    /\ \A m \in Models : balanceResp.remainingConversations[m] >= 0

\* A balance used beyond the plan grant and beyond the purchased points.
C9_Witness ==
  /\ balanceResp.status = 200
  /\ balanceResp.monthlyUsed > balanceResp.monthlyTotal
  /\ balanceResp.purchasedUsed > balanceResp.purchasedBalance
  /\ balanceResp.monthlyRemaining = 0 /\ balanceResp.purchasedRemaining = 0

\* C10: a member with no allocation for the current period whose access key
\* declares no limit (or who has no access key) gets a zero allocation and the
\* request leaves the CreditAllocation rows as they were.
C10_NoLimitPersistsNothing ==
  [][( /\ FindAllocation(allocations, "org1", "member", now) = 0
       /\ ~(accessKey["member"].exists /\ accessKey["member"].hasLimit
              /\ accessKey["member"].dailyTokenLimit > 0)
       /\ GetBalance("member") ) =>
       /\ allocations' = allocations
       /\ balanceResp'.status = 200
       /\ balanceResp'.allocatedDefined
       /\ balanceResp'.allocatedTotal = 0
       /\ balanceResp'.allocatedRemaining = 0
       /\ balanceResp'.totalRemaining = 0]_vars

\* A member holding an access key without a limit has been answered with the
\* zero allocation, and there is still no row.
C10_Witness ==
  /\ balanceResp.user = "member" /\ balanceResp.status = 200
  /\ accessKey["member"].exists /\ ~accessKey["member"].hasLimit
  /\ balanceResp.allocatedDefined /\ balanceResp.allocatedTotal = 0
  /\ allocations = <<>>

----------------------------------------------------------------------------
(* Claims about token usage *)

RECURSIVE DebitedUpTo(_)
\* The tokens debited by the calls 1..n whose upsert has run.
DebitedUpTo(n) ==
  IF n = 0 THEN 0
  ELSE DebitedUpTo(n - 1) + (IF calls[n].pc # "idle" THEN calls[n].tokens ELSE 0)

\* C7: whatever the interleaving of concurrent updateTokenUsage calls for one
\* user and day, with or without a usage row at the start, tokensUsed grows by
\* every debited amount: no update is lost and, once all calls have completed,
\* tokensUsed is the initial value plus the sum of all amounts.
C7_TokensUsedIsSumOfDebits ==
  /\ usage.tokensUsed = usageAtStart.tokensUsed + DebitedUpTo(NumCalls)
  /\ usage.exists = (usageAtStart.exists \/ \E c \in Calls : calls[c].pc # "idle")

\* Two calls raced from a missing row: both upserts have run, neither call has
\* finished, and both amounts are counted.
C7_Witness ==
  /\ calls[1].pc = "findUnique" /\ calls[2].pc = "findUnique"
  /\ calls[1].tokens = 2 /\ calls[2].tokens = 1
  /\ ~usageAtStart.exists
  /\ usage.exists /\ usage.tokensUsed = 3

----------------------------------------------------------------------------
(* Claims about quiz generation and artifact progress *)

\* C12: in every reachable state of an artifact unlockLevel <= totalQuestions,
\* whichever of generation, answer submission, deletion and progress update
\* wrote the fields.
C12_UnlockLevelAtMostTotal == artifact.unlockLevel <= artifact.totalQuestions

\* Neither generator has a quiz for this artifact.
NoQuizFor(ai, offset) ==
  /\ Len(generateQuizzesForArtifact(ai, offset).quizzes) = 0
  /\ Len(generateFallbackQuizzes(artifact.content, offset)) = 0

\* C19: a generate request on an artifact without quizzes for which the AI
\* generator and the fallback generator both yield nothing creates no quiz row,
\* stores totalQuestions = 0 and unlockLevel = 0 and answers isUnlocked = true;
\* a list request on an artifact without quiz rows answers isUnlocked = true.
C19_ZeroQuizzesUnlocks ==
  [][/\ \A ai \in AiResponses, offset \in 0..2 :
          (Len(artQuizzes) = 0 /\ NoQuizFor(ai, offset) /\ GenerateQuizzes(ai, offset)) =>
             /\ artQuizzes' = <<>>
             /\ artifact'.totalQuestions = 0
             /\ artifact'.unlockLevel = 0
             /\ artResp'.status = 200
             /\ artResp'.total = 0
             /\ artResp'.isUnlocked
     /\ (Len(artQuizzes) = 0 /\ ListQuizzes) =>
          (artResp'.total = 0 /\ artResp'.isUnlocked)]_vars

\* A generate request whose provider call failed and whose code matches no
\* idiom has just been answered: nothing generated, artifact unlocked.
C19_Witness ==
  /\ artResp.op = "generate" /\ artResp.generated /\ artResp.fallback
  /\ artResp.ai = "providerError"
  /\ artResp.total = 0 /\ artResp.isUnlocked
  /\ artifact.content = {} /\ artifact.totalQuestions = 0
  /\ artQuizzes = <<>>

\* The AI generator has nothing to return: the call or the parsing failed, an
\* element could not be processed, or no element passed validation.
AiYieldsNothing(ai) ==
  \/ ai.outcome # "json"
  \/ \E i \in DOMAIN ai.quizzes : ai.quizzes[i].malformed
  \/ Len(validateQuizzes(ai.quizzes)) = 0

\* C20: when the AI generator fails or produces no usable quiz, the generate
\* request still succeeds, the fallback generator runs on the artifact's code
\* and exactly its quizzes are persisted: one pending row per matched idiom,
\* levels 1..N, each with the round-robin target as correct label.
C20_AiFailureFallsBack ==
  [][\A ai \in AiResponses, offset \in 0..2 :
       (Len(artQuizzes) = 0 /\ AiYieldsNothing(ai) /\ GenerateQuizzes(ai, offset)) =>
          /\ artResp'.status = 200
          /\ artResp'.fallback
          /\ Len(artQuizzes') = Cardinality(artifact.content)
          /\ artifact'.totalQuestions = Cardinality(artifact.content)
          /\ {artQuizzes'[i].question : i \in DOMAIN artQuizzes'} = artifact.content
          /\ \A i \in DOMAIN artQuizzes' :
               /\ artQuizzes'[i].level = i
               /\ artQuizzes'[i].status = "pending"
               /\ artQuizzes'[i].correctLabel = RoundRobinLabel(offset, i)]_vars

\* After a response that could not be parsed, the four canned quizzes are stored.
C20_Witness ==
  /\ artResp.op = "generate" /\ artResp.ai = "parseError" /\ artResp.fallback
  /\ Len(artQuizzes) = 4
  /\ artQuizzes[1].question = "async" /\ artQuizzes[4].question = "useState"
  /\ artifact.totalQuestions = 4

----------------------------------------------------------------------------
(* Claims about history compaction *)

\* ceil(chars / 4), the per-message estimate
CeilQuarter(chars) == IF chars % 4 = 0 THEN chars \div 4 ELSE chars \div 4 + 1

\* The stated decision rule, for n messages of `chars` characters each.
StatedDecision(n, chars, summary) ==
  IF n < 10 THEN "no_compact"
  ELSE IF n * CeilQuarter(chars) < 40000 THEN "no_compact"
  ELSE IF summary.exists /\ n - (summary.lastSummarizedMessageIndex + 1) <= 12
    THEN "reuse_existing"
  ELSE "regenerate"

\* C13: the decision of every call follows the stated rule: no_compact under 10
\* messages, else no_compact under 40,000 estimated tokens (sum of
\* ceil(chars / 4)), else reuse_existing when a summary exists and at most 12
\* messages came after it, else regenerate.
C13_DecisionFollowsRule ==
  [][\A provider \in ProviderOutcomes :
       Compact(provider) =>
         compacted'.decision
           = StatedDecision(Len(messages), messages[1].content.n, compactSummary)]_vars

\* The scenario: 12 messages, 45,000 estimated tokens, no summary: regenerate.
C13_Witness ==
  /\ compacted.called /\ compacted.inputLength = 12
  /\ messages[1].content.n = 15000
  /\ ~compacted.existingSummary.exists
  /\ compacted.decision = "regenerate"

\* C14: whenever compaction is applied, keepCount is between 1 and
\* messages.length - 1 and the first retained message,
\* messages[messages.length - keepCount], has role user.
C14_RetainedSuffixStartsWithUser ==
  (compacted.called /\ compacted.decision # "no_compact") =>
     /\ compacted.keepCount \in 1..(compacted.inputLength - 1)
     /\ messages[compacted.inputLength - compacted.keepCount + 1].role = "user"

\* C15: a compacted message list built from recent messages that start with
\* role user has recentMessages.length + 2 entries, begins with role user and
\* alternates user / assistant from there on.
C15_CompactedMessagesAlternate ==
  (compacted.wasCompacted /\ compacted.messagesForApi[3].role = "user") =>
     LET api == compacted.messagesForApi IN
     /\ Len(api) = compacted.keepCount + 2
     /\ api[1].role = "user"
     /\ \A i \in 1..(Len(api) - 1) : api[i].role # api[i + 1].role

\* C16: with every returned newSummary persisted, the stored summary's
\* lastSummarizedMessageIndex never decreases, a stored summary is never
\* removed, and every stored summary has
\* summarizedMessageCount = lastSummarizedMessageIndex + 1 and an index below
\* the number of messages.
C16_SummaryIndexMonotonic ==
  [][/\ compactSummary'.lastSummarizedMessageIndex
          >= compactSummary.lastSummarizedMessageIndex
     /\ compactSummary.exists => compactSummary'.exists
     /\ compactSummary'.exists =>
          /\ compactSummary'.summarizedMessageCount
               = compactSummary'.lastSummarizedMessageIndex + 1
          /\ compactSummary'.lastSummarizedMessageIndex \in 0..(Len(messages') - 1)]_vars

\* A summary has just been regenerated over an earlier one.
C16_Witness ==
  /\ compacted.newSummary.exists /\ compacted.existingSummary.exists
  /\ compactSummary = compacted.newSummary
  /\ compactSummary.lastSummarizedMessageIndex
       > compacted.existingSummary.lastSummarizedMessageIndex

\* C17: a call returns a newSummary exactly when its decision is regenerate
\* (and it returns at all); on no_compact it returns wasCompacted = false, no
\* newSummary and the input messages, role and content in order; on
\* reuse_existing it returns wasCompacted = true, no newSummary, and the
\* provider is not called.
C17_NewSummaryOnlyOnRegenerate ==
  compacted.called =>
    /\ compacted.newSummary.exists
         = (compacted.decision = "regenerate" /\ ~compacted.threw)
    /\ compacted.decision = "no_compact" =>
         /\ ~compacted.wasCompacted /\ ~compacted.threw
         /\ Len(compacted.messagesForApi) = compacted.inputLength
         /\ \A i \in 1..compacted.inputLength :
              /\ compacted.messagesForApi[i].role = messages[i].role
              /\ compacted.messagesForApi[i].content = messages[i].content
    /\ compacted.decision = "reuse_existing" =>
         /\ compacted.wasCompacted /\ ~compacted.threw
         /\ compacted.providerCalls = 0

\* A call has reused the stored summary.
C17_Witness ==
  /\ compacted.called /\ compacted.decision = "reuse_existing"
  /\ compacted.wasCompacted /\ compactSummary.exists
  /\ compacted.messagesForApi[1].content.kind = "summary"

\* C18: when the summary cannot be generated on the regenerate path, the call
\* throws: it returns no messagesForApi and no newSummary, the stored summary
\* stays as it was and the conversation keeps all its messages.
C18_FailedSummaryThrows ==
  [][\A provider \in ProviderOutcomes \ {"ok"} :
       ( /\ getCompactDecision(messages, compactSummary) = "regenerate"
         /\ Compact(provider) ) =>
          /\ compacted'.threw
          /\ ~compacted'.wasCompacted
          /\ compacted'.messagesForApi = <<>>
          /\ ~compacted'.newSummary.exists
          /\ compactSummary' = compactSummary
          /\ messages' = messages]_vars

\* A regeneration over an earlier summary got a response without text.
C18_Witness ==
  /\ compacted.threw /\ compacted.decision = "regenerate"
  /\ compacted.providerCalls = 1
  /\ compacted.existingSummary.exists
  /\ compactSummary = compacted.existingSummary

----------------------------------------------------------------------------
(* Claims about the unlocked predicate and quiz gating *)

\* C21: the last successful response of list, generate (both branches), answer
\* or progress update reports isUnlocked = (total = 0 or correct >= total),
\* over the total and the number of correct answers that the endpoint works
\* with: the Quiz rows for list, generate and answer, the Artifact fields for
\* the progress update.
C21_SameUnlockedPredicate ==
  LET byRows == \/ Len(artQuizzes) = 0
                \/ AnsweredCorrectly(artQuizzes) >= Len(artQuizzes)
      byFields == \/ artifact.totalQuestions = 0
                  \/ artifact.unlockLevel >= artifact.totalQuestions
  IN artResp.status = 200 =>
       /\ artResp.op \in {"list", "generate", "answer"} =>
            (artResp.isUnlocked = byRows /\ artResp.total = Len(artQuizzes))
       /\ artResp.op = "progress" =>
            /\ artResp.isUnlocked = byFields
            /\ artResp.total = artifact.totalQuestions
            /\ artResp.currentLevel = artifact.unlockLevel

\* The last of several quizzes has just been answered correctly.
C21_Witness ==
  /\ artResp.op = "answer" /\ artResp.status = 200
  /\ artResp.total >= 2 /\ artResp.currentLevel = artResp.total
  /\ artResp.isUnlocked

----------------------------------------------------------------------------
(* Claims about answer redistribution *)

\* The texts of a list of options, with their multiplicities.
TextCount(options, text) == Cardinality({i \in DOMAIN options : options[i].text = text})

\* C22: distributeCorrectAnswers returns, for every validated quiz, the same
\* option texts labelled A, B, C each exactly once; the option carrying the
\* new correctLabel has the text of the originally correct option; the i-th
\* new correctLabel is the round-robin target for the call's offset, so three
\* consecutive quizzes have three different correct labels.
C22_RedistributionKeepsQuiz ==
  relabelled.called =>
    /\ ~relabelled.threw
    /\ \A i \in 1..3 :
         LET before == relabelled.input[i]
             after == relabelled.output[i]
             wasCorrect == before.options[FindIndexByLabel(before.options,
                                                           before.correctLabel)]
         IN /\ Len(after.options) = Len(before.options)
            /\ \A t \in {"t1", "t2", "t3", "t4"} :
                 TextCount(after.options, t) = TextCount(before.options, t)
            /\ \A l \in {"A", "B", "C"} :
                 Cardinality({j \in DOMAIN after.options : after.options[j].label = l}) = 1
            /\ \A j \in DOMAIN after.options : after.options[j].label \in {"A", "B", "C"}
            /\ after.correctLabel = Labels[((relabelled.offset + i - 1) % 3) + 1]
            /\ \E j \in DOMAIN after.options :
                 /\ after.options[j].label = after.correctLabel
                 /\ after.options[j].text = wasCorrect.text
    /\ Cardinality({relabelled.output[i].correctLabel : i \in 1..3}) = 3

----------------------------------------------------------------------------
(* Claims about what compaction, usage accounting and quiz gating keep *)

\* C24: on every compacted result each message is covered by the summary used
\* or sent verbatim: the retained suffix (from index inputLength - keepCount)
\* starts no later than the summary's lastSummarizedMessageIndex + 1.
C24_NoMessageDropped ==
  (compacted.called /\ compacted.wasCompacted) =>
    LET used == IF compacted.decision = "reuse_existing"
                  THEN compacted.existingSummary
                  ELSE compacted.newSummary
    IN compacted.inputLength - compacted.keepCount <= used.lastSummarizedMessageIndex + 1

\* Tokens debited under a category by the calls that have returned.
RECURSIVE DebitedBy(_, _)
DebitedBy(cs, category) ==
  IF cs = {} THEN 0
  ELSE LET c == CHOOSE x \in cs : TRUE
       IN (IF calls[c].pc = "done" /\ calls[c].category = category
             THEN calls[c].tokens ELSE 0) + DebitedBy(cs \ {c}, category)

\* C25: starting with no usage row, once the calls made have returned,
\* breakdown[category] is the total debited under that category and the
\* breakdown values add up to tokensUsed, the first call included.
C25_BreakdownMatchesCounter ==
  (/\ usageAtStart = NoUsage
   /\ \A c \in Calls : calls[c].pc \in {"idle", "done"}
   /\ \E c \in Calls : calls[c].pc = "done") =>
    /\ \A k \in Categories : usage.breakdown[k] = DebitedBy(Calls, k)
    /\ usage.breakdown["learning"] + usage.breakdown["chat"] = usage.tokensUsed

\* C26: from an artifact with at least one quiz that is not unlocked, a
\* request is answered isUnlocked = true only when afterwards every one of
\* its quizzes has been answered correctly.
C26_GatingNotBypassed ==
  [][(/\ Len(artQuizzes) > 0
      /\ AnsweredCorrectly(artQuizzes) < Len(artQuizzes)
      /\ artResp' # artResp
      /\ artResp'.status = 200
      /\ artResp'.isUnlocked) =>
       (/\ Len(artQuizzes') > 0
        /\ AnsweredCorrectly(artQuizzes') >= Len(artQuizzes'))]_vars

----------------------------------------------------------------------------
(* Claims about rate limiting, role updates, password reset and racing
   generation *)

\* Requests of an identifier admitted by a limiter at a time in [from, from + WindowMs).
AdmittedIn(identifier, via, from) ==
  Cardinality({i \in DOMAIN admitted :
                 /\ admitted[i].identifier = identifier
                 /\ admitted[i].via = via
                 /\ from <= admitted[i].at
                 /\ admitted[i].at < from + WindowMs})

\* C23: the in-memory limiter admits, for every identifier and every interval
\* of one window length, at most Limit checks.
C23_MemoryWindowHoldsLimit ==
  \A id \in Identifiers, from \in 0..MaxNow : AdmittedIn(id, "memory", from) <= Limit

\* C27: once every generate and delete request has completed,
\* totalQuestions is the number of Quiz rows, the rows have the levels 1..N
\* once each, and at most one generate request has inserted a quiz set.
C27_GenerateDeleteConsistent ==
  (/\ \A r \in Posts : posts[r].pc \in {"idle", "done"}
   /\ \E r \in Posts : posts[r].pc = "done") =>
    /\ artifact.totalQuestions = Len(artQuizzes)
    /\ \A level \in 1..Len(artQuizzes) :
         Cardinality({i \in DOMAIN artQuizzes : artQuizzes[i].level = level}) = 1
    /\ Cardinality({r \in Posts : posts[r].kind = "POST" /\ posts[r].created > 0}) <= 1

C29_TokenUsedAtMostOnce ==
  /\ passwordUpdates["issued"] <= 1
  /\ passwordUpdates["unknown"] = 0

\* C30: the sorted set holds every request the Redis check admitted within
\* the last window, and the Redis check admits at most Limit requests of an
\* identifier in any interval of one window length.
C30_RedisSetHoldsAdmitted ==
  /\ \A i \in DOMAIN admitted :
       (admitted[i].via = "redis" /\ admitted[i].at > rlNow - WindowMs) =>
         \E e \in sortedSet[admitted[i].identifier] :
           e.member = admitted[i].member /\ e.score = admitted[i].at
  /\ \A id \in Identifiers, from \in 0..MaxNow : AdmittedIn(id, "redis", from) <= Limit

====
